---- MODULE Spec2Model ----
(***************************************************************************)
(* Classification and multi-signal aggregation engine of the Shinigami     *)
(* Eyes ML service: ContentAnalyzer (content_analyzer.py),                 *)
(* CommonCrawlAnalyzer (common_crawl.py) and the Flask handlers (app.py).  *)
(*                                                                         *)
(* Numbers.  Python floats are modelled by exact rationals <<n, d>> in     *)
(* lowest terms with d > 0.  The one irrational quantity of the program,   *)
(* the standard deviation np.std(classifications), is carried exactly: a   *)
(* number is a record [a |-> rational, s |-> rational] that denotes        *)
(* a - sqrt(s), kept in canonical form (s = 0 whenever s is the square of  *)
(* a rational), so that equal numbers are equal records.                   *)
(*                                                                         *)
(* Texts.  A text is a sequence of tokens:                                 *)
(*   "a"  one ordinary word character                                      *)
(*   " "  one whitespace character                                         *)
(*   "#"  one special character (neither \w, \s nor one of . , ! ?)        *)
(*   "U"  the head of a URL, "http://" and one non-space character         *)
(*   "P"  one occurrence of a phrase of the transphobic patterns           *)
(*   "F"  one occurrence of a phrase of the friendly patterns              *)
(***************************************************************************)
EXTENDS Integers, Sequences, FiniteSets, TLC

(***************************************************************************)
(* Bounds of the model.                                                    *)
(***************************************************************************)
MaxTextLen == 5
MaxRespLen == 2
MaxMatches == 10
MaxPosts == 22
MaxRequests == 2
ConfSteps == 20
MaxKnownLinks == 5
MaxHostParts == 3
MaxRateRequests == 17
MaxTime == 61
MaxAge == 86402
Epoch == 1000000
MaxValueLen == 2
MaxLongPosts == 12

(***************************************************************************)
(* Program constants.                                                      *)
(***************************************************************************)
MinTextLen == 5
PostLimit == 20
PhraseWidth == 6
UrlWidth == 8
RecordLimit == 10
FetchLimit == 3
PageCap == 10000
LinkCap == 5
RATE_LIMIT_WINDOW == 60
RATE_LIMIT_MAX == 60
Registrations == 4
MinLongPosts == 10

(***************************************************************************)
(* Exact rational arithmetic.                                              *)
(***************************************************************************)
Abs(n) == IF n < 0 THEN -n ELSE n

RECURSIVE GCD(_, _)
GCD(a, b) == IF b = 0 THEN a ELSE GCD(b, a % b)

Rat(n, d) ==
    LET g == GCD(Abs(n), Abs(d))
        sg == IF d < 0 THEN -1 ELSE 1
    IN  <<(sg * n) \div g, (sg * d) \div g>>

RAdd(p, q) == Rat(p[1] * q[2] + q[1] * p[2], p[2] * q[2])
RSub(p, q) == Rat(p[1] * q[2] - q[1] * p[2], p[2] * q[2])
RMul(p, q) == Rat(p[1] * q[1], p[2] * q[2])
RDiv(p, q) == Rat(p[1] * q[2], p[2] * q[1])
RLt(p, q) == p[1] * q[2] < q[1] * p[2]
RLe(p, q) == p[1] * q[2] <= q[1] * p[2]
RMin(p, q) == IF RLt(q, p) THEN q ELSE p
RInt(n) == <<n, 1>>

RECURSIVE RSum(_)
RSum(seq) == IF seq = <<>> THEN RInt(0) ELSE RAdd(Head(seq), RSum(Tail(seq)))

(***************************************************************************)
(* Numbers a - sqrt(s).                                                    *)
(***************************************************************************)
ISqrt(n) == CHOOSE k \in 0..n : k * k <= n /\ (k + 1) * (k + 1) > n
IsSquare(n) == ISqrt(n) * ISqrt(n) = n
RIsSquare(q) == IsSquare(q[1]) /\ IsSquare(q[2])
RSqrt(q) == Rat(ISqrt(q[1]), ISqrt(q[2]))

\* a - sqrt(s) in canonical form
Num(a, s) == IF RIsSquare(s) THEN [a |-> RSub(a, RSqrt(s)), s |-> RInt(0)]
                             ELSE [a |-> a, s |-> s]
NumOf(q) == [a |-> q, s |-> RInt(0)]
\* x + q and x / 2 for a number x and a rational q
NAddR(x, q) == [a |-> RAdd(x.a, q), s |-> x.s]
NHalf(x) == [a |-> RDiv(x.a, RInt(2)), s |-> RDiv(x.s, RInt(4))]
\* x < q, x > q for a number x and a rational q
NLt(x, q) ==
    LET d == RSub(x.a, q) IN RLt(d, RInt(0)) \/ RLt(RMul(d, d), x.s)
NGt(x, q) ==
    LET d == RSub(x.a, q) IN RLt(RInt(0), d) /\ RLt(x.s, RMul(d, d))
NLe(x, q) == ~NGt(x, q)
NGe(x, q) == ~NLt(x, q)
NMinR(q, x) == IF NLt(x, q) THEN x ELSE NumOf(q)

(***************************************************************************)
(* Texts.                                                                  *)
(***************************************************************************)
Tokens == {"a", " ", "#", "U", "P", "F"}
WordTokens == {"a", "U", "P", "F"}

Width(c) == IF c \in {"P", "F"} THEN PhraseWidth
            ELSE IF c = "U" THEN UrlWidth ELSE 1

RECURSIVE TextLen(_)
TextLen(text) == IF text = <<>> THEN 0 ELSE Width(Head(text)) + TextLen(Tail(text))

RECURSIVE LStrip(_)
LStrip(text) == IF text # <<>> /\ Head(text) = " " THEN LStrip(Tail(text)) ELSE text

RECURSIVE RStrip(_)
RStrip(text) ==
    IF text # <<>> /\ text[Len(text)] = " "
    THEN RStrip(SubSeq(text, 1, Len(text) - 1)) ELSE text

\* str.strip()
Strip(text) == RStrip(LStrip(text))

\* re.sub(r'https?://\S+', '', text): a URL runs up to the next whitespace
RECURSIVE RemoveUrls(_, _)
RemoveUrls(text, inUrl) ==
    IF text = <<>> THEN <<>>
    ELSE IF Head(text) = " " THEN <<" ">> \o RemoveUrls(Tail(text), FALSE)
    ELSE IF inUrl \/ Head(text) = "U" THEN RemoveUrls(Tail(text), TRUE)
    ELSE <<Head(text)>> \o RemoveUrls(Tail(text), FALSE)

\* re.sub(r'[^\w\s.,!?]', ' ', text)
RemoveSpecial(text) == [i \in 1..Len(text) |-> IF text[i] = "#" THEN " " ELSE text[i]]

\* re.sub(r'\s+', ' ', text)
RECURSIVE CollapseSpaces(_)
CollapseSpaces(text) ==
    IF Len(text) < 2 THEN text
    ELSE IF text[1] = " " /\ text[2] = " " THEN CollapseSpaces(Tail(text))
    ELSE <<Head(text)>> \o CollapseSpaces(Tail(text))

\* ContentAnalyzer.preprocess_text with self.nlp = None
preprocess_text(text) ==
    IF text = <<>> THEN <<>>
    ELSE Strip(CollapseSpaces(RemoveSpecial(RemoveUrls(text, FALSE))))

\* sum(len(re.findall(pattern, text)) for pattern in patterns): the
\* occurrences of phrase token tok that stand between word boundaries (\b)
CountMatches(text, tok) ==
    Cardinality({i \in 1..Len(text) :
        /\ text[i] = tok
        /\ (i = 1 \/ text[i - 1] \notin WordTokens)
        /\ (i = Len(text) \/ text[i + 1] \notin WordTokens)})

(***************************************************************************)
(* ContentAnalyzer.                                                        *)
(***************************************************************************)
None == [none |-> TRUE]

\* self.labels
labels(c) == CASE c = 0 -> "t-friendly" [] c = 1 -> "gray-area" [] c = 2 -> "transphobic"

(***************************************************************************)
(* The model backend's answer to one POST /api/generate.  status is        *)
(* "unreachable" (requests.post raises), "500" (any non-200 answer),       *)
(* "200_invalid_json" (response.json() raises), "200_no_response_key"      *)
(* (the JSON object has no "response" entry) or "200" with the response    *)
(* text, a sequence of characters: the digits "0" and "2" and a character  *)
(* "x" that is no digit 0..2 (the digit "1" is the text the code           *)
(* substitutes when the "response" entry is missing).                      *)
(***************************************************************************)
RespChars == {"0", "2", "x"}

\* re.search(r'[0-2]', classification_text): the first digit 0..2, or None
RECURSIVE SearchDigit(_)
SearchDigit(resp) ==
    IF resp = <<>> THEN None
    ELSE IF Head(resp) \in {"0", "1", "2"} THEN [group |-> Head(resp)]
    ELSE SearchDigit(Tail(resp))

\* int(classification_match.group(0))
ToInt(ch) == CASE ch = "0" -> 0 [] ch = "1" -> 1 [] ch = "2" -> 2

ConfOllama == Rat(8, 10)

\* analyze_with_ollama, had it answered None for a response without a digit
analyze_with_ollama_strict(reply) ==
    IF reply.status = "200" /\ SearchDigit(reply.response) # None
    THEN [classification |-> ToInt(SearchDigit(reply.response).group),
          label |-> labels(ToInt(SearchDigit(reply.response).group)),
          confidence |-> ConfOllama,
          method |-> "ollama"]
    ELSE None

\* ContentAnalyzer.analyze_with_ollama: the verdict, or None
analyze_with_ollama(reply) ==
    IF reply.status \in {"unreachable", "200_invalid_json"} THEN None
    ELSE IF reply.status \in {"200", "200_no_response_key"} THEN
        LET classification_text ==
                IF reply.status = "200_no_response_key" THEN <<"1">> ELSE reply.response
            classification_match == SearchDigit(classification_text)
            classification ==
                IF classification_match # None THEN ToInt(classification_match.group)
                ELSE 1
        IN  [classification |-> classification,
             label |-> labels(classification),
             confidence |-> ConfOllama,
             method |-> "ollama"]
    ELSE None

RatioHigh == Rat(7, 10)
RatioLow == Rat(3, 10)
ConfGray == Rat(3, 10)
ConfBase == Rat(5, 10)
ConfSlope == Rat(15, 10)
ConfCap == Rat(95, 100)

\* ClassifyCounts, had the two ratio thresholds been inclusive
ClassifyCounts_inclusive(transphobic_count, friendly_count) ==
    LET total_matches == transphobic_count + friendly_count IN
    IF total_matches = 0 THEN
        [classification |-> 1, label |-> labels(1), confidence |-> ConfGray,
         method |-> "pattern_matching"]
    ELSE
        LET transphobic_score == Rat(transphobic_count, total_matches)
            classification ==
                IF RLe(RatioHigh, transphobic_score) THEN 2
                ELSE IF RLe(transphobic_score, RatioLow) THEN 0
                ELSE 1
            confidence ==
                IF RLe(RatioHigh, transphobic_score)
                THEN RAdd(ConfBase, RMul(RSub(transphobic_score, RatioHigh), ConfSlope))
                ELSE IF RLe(transphobic_score, RatioLow)
                THEN RAdd(ConfBase, RMul(RSub(RatioLow, transphobic_score), ConfSlope))
                ELSE ConfGray
        IN  [classification |-> classification,
             label |-> labels(classification),
             confidence |-> RMin(confidence, ConfCap),
             method |-> "pattern_matching",
             pattern_stats |-> [transphobic_matches |-> transphobic_count,
                                friendly_matches |-> friendly_count]]

\* ContentAnalyzer.analyze_with_patterns, from the two match counts on
ClassifyCounts(transphobic_count, friendly_count) ==
    LET total_matches == transphobic_count + friendly_count IN
    IF total_matches = 0 THEN
        [classification |-> 1,
         label |-> labels(1),
         confidence |-> ConfGray,
         method |-> "pattern_matching"]
    ELSE
        LET transphobic_score == Rat(transphobic_count, total_matches)
            classification ==
                IF RLt(RatioHigh, transphobic_score) THEN 2
                ELSE IF RLt(transphobic_score, RatioLow) THEN 0
                ELSE 1
            confidence ==
                IF RLt(RatioHigh, transphobic_score)
                THEN RAdd(ConfBase, RMul(RSub(transphobic_score, RatioHigh), ConfSlope))
                ELSE IF RLt(transphobic_score, RatioLow)
                THEN RAdd(ConfBase, RMul(RSub(RatioLow, transphobic_score), ConfSlope))
                ELSE ConfGray
        IN  [classification |-> classification,
             label |-> labels(classification),
             confidence |-> RMin(confidence, ConfCap),
             method |-> "pattern_matching",
             pattern_stats |-> [transphobic_matches |-> transphobic_count,
                                friendly_matches |-> friendly_count]]

\* ContentAnalyzer.analyze_with_patterns
analyze_with_patterns(text) ==
    ClassifyCounts(CountMatches(text, "P"), CountMatches(text, "F"))

ConfInsufficient == Rat(1, 10)

\* the length check, had it measured the text without stripping it
TooShort_unstripped(text) == text = <<>> \/ TextLen(text) < MinTextLen

\* not text or len(text.strip()) < 5
TooShort(text) == text = <<>> \/ TextLen(Strip(text)) < MinTextLen

\* analyze_text, had it matched the patterns on the text as given
analyze_text_unprocessed(available, text, reply) ==
    IF text = <<>> \/ TextLen(Strip(text)) < MinTextLen THEN
        [classification |-> 1, label |-> labels(1), confidence |-> Rat(1, 10),
         error |-> "insufficient_text"]
    ELSE
        LET ollama_result == IF available THEN analyze_with_ollama(reply) ELSE None
        IN  IF ollama_result # None THEN ollama_result
            ELSE analyze_with_patterns(text)

\* ContentAnalyzer.analyze_text, for the analyzer's ollama_available flag and
\* the backend's answer to the call, if one is made
analyze_text(available, text, reply) ==
    IF TooShort(text) THEN
        [classification |-> 1,
         label |-> labels(1),
         confidence |-> ConfInsufficient,
         error |-> "insufficient_text"]
    ELSE
        LET processed_text == preprocess_text(text)
            ollama_result == IF available THEN analyze_with_ollama(reply) ELSE None
        IN  IF ollama_result # None THEN ollama_result
            ELSE analyze_with_patterns(processed_text)

\* the number of calls of analyze_with_ollama that analyze_text makes
OllamaCalls(available, text) == IF ~TooShort(text) /\ available THEN 1 ELSE 0

ConfNoPosts == Rat(1, 10)
ThresholdHigh == Rat(16, 10)
ThresholdLow == Rat(4, 10)
ProfileConfCap == Rat(95, 100)
SampleDivisor == Rat(10, 1)

\* posts[:20], had the slice been left out
AnalyzedPosts_all(posts) == posts

\* posts[:20]: the posts that analyze_profile passes to analyze_text
AnalyzedPosts(posts) ==
    SubSeq(posts, 1, IF Len(posts) < PostLimit THEN Len(posts) ELSE PostLimit)

\* [c * conf for c, conf in zip(classifications, confidences)]
RECURSIVE Weighted(_, _)
Weighted(classifications, confidences) ==
    IF classifications = <<>> THEN <<>>
    ELSE <<RMul(RInt(Head(classifications)), Head(confidences))>>
         \o Weighted(Tail(classifications), Tail(confidences))

\* sum(weighted_classifications) / total_confidence, or 1
WeightedAvg(classifications, confidences) ==
    LET weighted_classifications == Weighted(classifications, confidences)
        total_confidence == RSum(confidences)
    IN  IF RLt(RInt(0), total_confidence)
        THEN RDiv(RSum(weighted_classifications), total_confidence)
        ELSE RInt(1)

\* the final classification, had the two thresholds been inclusive
FinalClassification_inclusive(weighted_avg) ==
    IF RLe(ThresholdHigh, weighted_avg) THEN 2
    ELSE IF RLe(weighted_avg, ThresholdLow) THEN 0
    ELSE 1

\* the final classification of a weighted average
FinalClassification(weighted_avg) ==
    IF RLt(ThresholdHigh, weighted_avg) THEN 2
    ELSE IF RLt(weighted_avg, ThresholdLow) THEN 0
    ELSE 1

RECURSIVE IntSum(_)
IntSum(seq) == IF seq = <<>> THEN 0 ELSE Head(seq) + IntSum(Tail(seq))

RECURSIVE Squares(_)
Squares(seq) == IF seq = <<>> THEN <<>> ELSE <<Head(seq) * Head(seq)>> \o Squares(Tail(seq))

\* np.std(classifications) ** 2: the population variance
Variance(classifications) ==
    LET n == Len(classifications)
        sum == IntSum(classifications)
        sumsq == IntSum(Squares(classifications))
    IN  Rat(n * sumsq - sum * sum, n * n)

\* the consistency, had the standard deviation not been halved
Consistency_unhalved(classifications) == Num(RInt(1), Variance(classifications))

\* 1.0 - (np.std(classifications) / 2.0)
Consistency(classifications) == Num(RInt(1), RDiv(Variance(classifications), RInt(4)))

\* the sample confidence, had it been scaled to the 20 analyzed posts
SampleConfidence_by20(n) == RMin(RInt(1), RDiv(RInt(n), Rat(20, 1)))

\* the sample confidence, had it been capped at 0.5
SampleConfidence_halved(n) == RMin(Rat(1, 2), RDiv(RInt(n), SampleDivisor))

\* min(1.0, len(posts) / 10.0)
SampleConfidence(n) == RMin(RInt(1), RDiv(RInt(n), SampleDivisor))

\* classifications.count(c) / len(classifications)
Share(classifications, c) ==
    Rat(Cardinality({i \in 1..Len(classifications) : classifications[i] = c}),
        Len(classifications))

\* the results of analyze_text for the analyzed posts; a post is a text with
\* the backend's answer to the call made for it
RECURSIVE AnalyzeEach(_, _)
AnalyzeEach(available, posts) ==
    IF posts = <<>> THEN <<>>
    ELSE <<analyze_text(available, Head(posts).text, Head(posts).reply)>>
         \o AnalyzeEach(available, Tail(posts))

PostResults(available, posts) == AnalyzeEach(available, AnalyzedPosts(posts))

\* [result["classification"] for result in results]
RECURSIVE Classifications(_)
Classifications(results) ==
    IF results = <<>> THEN <<>>
    ELSE <<Head(results).classification>> \o Classifications(Tail(results))

\* [result["confidence"] for result in results]
RECURSIVE Confidences(_)
Confidences(results) ==
    IF results = <<>> THEN <<>>
    ELSE <<Head(results).confidence>> \o Confidences(Tail(results))

\* the calls of analyze_with_ollama made for a list of posts
RECURSIVE OllamaCallsEach(_, _)
OllamaCallsEach(available, posts) ==
    IF posts = <<>> THEN 0
    ELSE OllamaCalls(available, Head(posts).text) + OllamaCallsEach(available, Tail(posts))

\* the result of analyze_profile from the classifications and confidences of
\* the analyzed posts and the number n of posts given
ProfileVerdict(classifications, final_classification, consistency, confidence, n) ==
    [classification |-> final_classification,
     label |-> labels(final_classification),
     confidence |-> confidence,
     sample_size |-> n,
     consistency |-> consistency,
     method |-> "profile_analysis",
     post_distribution |-> [transphobic |-> Share(classifications, 2),
                            gray_area |-> Share(classifications, 1),
                            friendly |-> Share(classifications, 0)]]

\* min(0.95, (consistency + sample_confidence) / 2)
ProfileConfidence(consistency, sample_confidence) ==
    NMinR(ProfileConfCap, NHalf(NAddR(consistency, sample_confidence)))

ProfileAggregate(classifications, confidences, consistency, n) ==
    ProfileVerdict(classifications,
                   FinalClassification(WeightedAvg(classifications, confidences)),
                   consistency,
                   ProfileConfidence(consistency, SampleConfidence(n)),
                   n)

ProfileOfResults(results, classifications, n) ==
    ProfileAggregate(classifications, Confidences(results),
                     Consistency(classifications), n)

\* ContentAnalyzer.analyze_profile
analyze_profile(available, posts) ==
    IF posts = <<>> THEN
        [classification |-> 1,
         label |-> labels(1),
         confidence |-> NumOf(ConfNoPosts),
         error |-> "no_posts"]
    ELSE
        ProfileOfResults(PostResults(available, posts),
                         Classifications(PostResults(available, posts)),
                         Len(posts))

(***************************************************************************)
(* CommonCrawlAnalyzer.                                                    *)
(*                                                                         *)
(* A URL is a sequence of parts: the scheme "https://", the prefixes       *)
(* "www." and "WWW.", a host name in lower or in upper case, and a path    *)
(* "/p".  A domain is a sequence of such parts too.                        *)
(***************************************************************************)
known_transphobic_domains ==
    {<<h>> : h \in {"kiwifarms.net", "ovarit.com", "rodeoh.com",
        "familyresearchcouncil.org", "heritage.org", "breitbart.com",
        "dailywire.com", "thefederalist.com", "lifesitenews.com",
        "womenspaceinternational.org", "womenarexx.org", "standingforsex.org",
        "womenarehuman.com", "fairplayforwomen.com", "womensdeclaration.com",
        "detransvoices.org", "terfisaslur.com", "genspect.org",
        "transgender-trend.com", "pitt.substack.com", "jessesingal.substack.com",
        "grahamlinehan.substack.com", "fencesitterz.substack.com",
        "abigailshrier.substack.com", "pduffy.substack.com",
        "michaelshellenberger.substack.com", "thepostmillennial.com", "fpiw.org"}}

known_transfriendly_domains ==
    {<<h>> : h \in {"glaad.org", "transequality.org", "thetrevorproject.org",
        "glsen.org", "pflag.org", "mermaidsuk.org.uk", "tgeu.org",
        "transhub.org.au", "genderspectrum.org", "transathlete.com",
        "transpulseproject.ca", "translawcenter.org", "transmascnetwork.org",
        "translifeline.org", "itgetsbetter.org", "gender.wikia.org",
        "transadvocate.com", "transjournalists.org", "juliaserano.com",
        "transstudent.org", "transyouthequality.org", "point5cc.com",
        "genderanalysis.net", "translash.org", "autostraddle.com", "them.us",
        "bitchmedia.org", "everydayfeminism.com"}}

\* str.lower() on one part of a URL
Lower(part) ==
    CASE part = "WWW." -> "www."
      [] part = "KIWIFARMS.NET" -> "kiwifarms.net"
      [] part = "GLAAD.ORG" -> "glaad.org"
      [] part = "EXAMPLE.COM" -> "example.com"
      [] OTHER -> part

RECURSIVE LowerAll(_)
LowerAll(parts) ==
    IF parts = <<>> THEN <<>> ELSE <<Lower(Head(parts))>> \o LowerAll(Tail(parts))

\* urlparse(...).netloc: what follows the scheme, up to the path
RECURSIVE Netloc(_)
Netloc(parts) ==
    IF parts = <<>> \/ Head(parts) = "/p" THEN <<>>
    ELSE <<Head(parts)>> \o Netloc(Tail(parts))

\* CommonCrawlAnalyzer._get_domain_from_url
_get_domain_from_url(url) ==
    LET full == IF url # <<>> /\ Head(url) = "https://" THEN url
                ELSE <<"https://">> \o url
        domain == LowerAll(Netloc(Tail(full)))
    IN  IF domain # <<>> /\ Head(domain) = "www." THEN Tail(domain) ELSE domain

ConfKnown == Rat(85, 100)

\* _check_known_domain_stance, had it looked into the transphobic list only
_check_known_domain_stance_one_list(domain) ==
    IF domain \in known_transphobic_domains THEN
        [classification |-> 2, confidence |-> ConfKnown,
         source |-> "known_transphobic_domain"]
    ELSE None

\* CommonCrawlAnalyzer._check_known_domain_stance
_check_known_domain_stance(domain) ==
    IF domain \in known_transphobic_domains THEN
        [classification |-> 2, confidence |-> ConfKnown,
         source |-> "known_transphobic_domain"]
    ELSE IF domain \in known_transfriendly_domains THEN
        [classification |-> 0, confidence |-> ConfKnown,
         source |-> "known_transfriendly_domain"]
    ELSE None

ConfNoData == Rat(1, 10)
SiteConfGray == Rat(3, 10)
SiteConfBase == Rat(5, 10)
SiteConfSpan == Rat(4, 10)

\* SiteClassifyCounts, had it shaped the confidence as analyze_with_patterns
SiteClassifyCounts_as_text(transphobic_count, friendly_count) ==
    [classification |-> ClassifyCounts(transphobic_count, friendly_count).classification,
     confidence |-> ClassifyCounts(transphobic_count, friendly_count).confidence,
     source |-> "pattern_analysis",
     matches |-> [transphobic |-> transphobic_count, friendly |-> friendly_count]]

\* the classification of a domain from the match counts on its pages
SiteClassifyCounts(transphobic_count, friendly_count) ==
    LET total_matches == transphobic_count + friendly_count IN
    IF total_matches = 0 THEN
        [classification |-> 1, confidence |-> SiteConfGray,
         source |-> "pattern_analysis",
         matches |-> [transphobic |-> 0, friendly |-> 0]]
    ELSE
        LET transphobic_ratio == Rat(transphobic_count, total_matches)
            classification ==
                IF RLt(RatioHigh, transphobic_ratio) THEN 2
                ELSE IF RLt(transphobic_ratio, RatioLow) THEN 0
                ELSE 1
            confidence ==
                IF RLt(RatioHigh, transphobic_ratio)
                THEN RAdd(SiteConfBase, RMin(SiteConfSpan, RSub(transphobic_ratio, RatioHigh)))
                ELSE IF RLt(transphobic_ratio, RatioLow)
                THEN RAdd(SiteConfBase, RMin(SiteConfSpan, RSub(RatioLow, transphobic_ratio)))
                ELSE SiteConfGray
        IN  [classification |-> classification, confidence |-> confidence,
             source |-> "pattern_analysis",
             matches |-> [transphobic |-> transphobic_count,
                          friendly |-> friendly_count]]

\* text[:10000]: the tokens that fit into the first n characters
RECURSIVE Truncate(_, _)
Truncate(text, n) ==
    IF text = <<>> \/ Width(Head(text)) > n THEN <<>>
    ELSE <<Head(text)>> \o Truncate(Tail(text), n - Width(Head(text)))

(***************************************************************************)
(* The archive's answer for a domain is the list of index records that     *)
(* _fetch_cc_records_for_domain returns before its cut to 10 (empty when   *)
(* the query fails); a record is given by what _fetch_warc_record and      *)
(* _extract_text_from_html make of it: None when the fetch fails, or       *)
(* [text |-> the extracted text].                                          *)
(***************************************************************************)
\* the contents list: the texts of the first 3 records that have text
RECURSIVE Contents(_)
Contents(records) ==
    IF records = <<>> THEN <<>>
    ELSE IF Head(records) # None /\ Head(records).text # <<>>
         THEN <<Truncate(Head(records).text, PageCap)>> \o Contents(Tail(records))
         ELSE Contents(Tail(records))

RECURSIVE CountAll(_, _)
CountAll(contents, tok) ==
    IF contents = <<>> THEN 0
    ELSE CountMatches(Head(contents), tok) + CountAll(Tail(contents), tok)

Take(seq, n) == SubSeq(seq, 1, IF Len(seq) < n THEN Len(seq) ELSE n)

\* _analyze_domain_content, had it gone on to count matches without looking
\* whether there are records and contents
_analyze_domain_content_unchecked(domain, answer) ==
    IF _check_known_domain_stance(domain) # None
    THEN _check_known_domain_stance(domain)
    ELSE SiteClassifyCounts(
             CountAll(Contents(Take(Take(answer, RecordLimit), FetchLimit)), "P"),
             CountAll(Contents(Take(Take(answer, RecordLimit), FetchLimit)), "F"))

\* CommonCrawlAnalyzer._analyze_domain_content
_analyze_domain_content(domain, answer) ==
    LET known_stance == _check_known_domain_stance(domain)
        records == Take(answer, RecordLimit)
        contents == Contents(Take(records, FetchLimit))
    IN  IF known_stance # None THEN known_stance
        ELSE IF records = <<>> THEN
            [classification |-> 1, confidence |-> ConfNoData, source |-> "no_cc_data"]
        ELSE IF contents = <<>> THEN
            [classification |-> 1, confidence |-> ConfNoData,
             source |-> "no_content_extracted"]
        ELSE SiteClassifyCounts(CountAll(contents, "P"), CountAll(contents, "F"))

\* the answer of the archive for a domain; none is asked for known domains
AnswerFor(world, domain) == IF domain \in DOMAIN world THEN world[domain] ELSE <<>>

\* the result r for a domain stored in the memo
Memoized(domain, r, memo) ==
    [result |-> r,
     memo |-> (domain :> r) @@ memo,
     queried |-> IF r.source \in {"known_transphobic_domain", "known_transfriendly_domain"}
                 THEN <<>> ELSE <<domain>>]

\* analyze_single_url, had it not looked into the memo
analyze_single_url_refetching(url, memo, world) ==
    Memoized(_get_domain_from_url(url),
             _analyze_domain_content(_get_domain_from_url(url),
                                     AnswerFor(world, _get_domain_from_url(url))),
             memo)

\* CommonCrawlAnalyzer.analyze_single_url: the result, the memo after the
\* call and the domains for which the archive was queried
analyze_single_url(url, memo, world) ==
    LET domain == _get_domain_from_url(url) IN
    IF domain \in DOMAIN memo THEN
        [result |-> memo[domain], memo |-> memo, queried |-> <<>>]
    ELSE
        Memoized(domain, _analyze_domain_content(domain, AnswerFor(world, domain)), memo)

\* the set of domains of a list of links
RECURSIVE DomainsOf(_)
DomainsOf(links) ==
    IF links = <<>> THEN {}
    ELSE LET domain == _get_domain_from_url(Head(links))
         IN  (IF domain # <<>> THEN {domain} ELSE {}) \cup DomainsOf(Tail(links))

\* the loop of analyze_links over the domains in the order of iteration
RECURSIVE LinkLoop(_, _, _, _, _)
LinkLoop(order, results, memo, world, queried) ==
    IF order = <<>> THEN [results |-> results, memo |-> memo, queried |-> queried]
    ELSE
        LET domain == Head(order)
            known_stance == _check_known_domain_stance(domain)
        IN  IF known_stance # None THEN
                LinkLoop(Tail(order),
                         Append(results, [domain |-> domain, result |-> known_stance]),
                         memo, world, queried)
            ELSE IF Len(results) >= LinkCap THEN
                LinkLoop(Tail(order), results, memo, world, queried)
            ELSE IF domain \in DOMAIN memo THEN
                LinkLoop(Tail(order),
                         Append(results, [domain |-> domain, result |-> memo[domain]]),
                         memo, world, queried)
            ELSE
                LET r == _analyze_domain_content(domain, AnswerFor(world, domain))
                IN  LinkLoop(Tail(order),
                             Append(results, [domain |-> domain, result |-> r]),
                             (domain :> r) @@ memo, world, Append(queried, domain))

RECURSIVE DomainResults(_)
DomainResults(results) ==
    IF results = <<>> THEN <<>>
    ELSE <<[domain |-> Head(results).domain,
            classification |-> Head(results).result.classification,
            confidence |-> Head(results).result.confidence]>>
         \o DomainResults(Tail(results))

LinkError(error) == [classification |-> 1, confidence |-> ConfNoData, error |-> error]

\* the result of analyze_links, had the overall confidence been the sum of
\* the confidences
LinksVerdict_total(results, confidences, weighted_avg) ==
    [classification |-> FinalClassification(weighted_avg),
     confidence |-> RSum(confidences),
     weighted_avg |-> weighted_avg,
     domains_analyzed |-> Len(results),
     domain_results |-> results]

\* the result of analyze_links from the classifications and confidences of
\* the domains analyzed
LinksVerdict(results, confidences, weighted_avg) ==
    [classification |-> FinalClassification(weighted_avg),
     confidence |-> RDiv(RSum(confidences), RInt(Len(confidences))),
     weighted_avg |-> weighted_avg,
     domains_analyzed |-> Len(results),
     domain_results |-> results]

LinksAggregate(results, classifications, confidences) ==
    LinksVerdict(results, confidences, WeightedAvg(classifications, confidences))

LinksOfResults(results) ==
    IF results = <<>> THEN LinkError("no_analysis_results")
    ELSE LinksAggregate(results, Classifications(results), Confidences(results))

LinksOfLoop(loop) ==
    [result |-> LinksOfResults(DomainResults(loop.results)),
     memo |-> loop.memo, queried |-> loop.queried]

\* CommonCrawlAnalyzer.analyze_links: the result, the memo after the call and
\* the domains for which the archive was queried; order is the order in which
\* the set of domains is iterated
analyze_links(links, order, memo, world) ==
    IF links = <<>> THEN
        [result |-> LinkError("no_links"), memo |-> memo, queried |-> <<>>]
    ELSE IF DomainsOf(links) = {} THEN
        [result |-> LinkError("no_valid_domains"), memo |-> memo, queried |-> <<>>]
    ELSE LinksOfLoop(LinkLoop(order, <<>>, memo, world, <<>>))

\* the orders in which a set of domains can be iterated
RECURSIVE Orders(_)
Orders(S) ==
    IF S = {} THEN {<<>>}
    ELSE UNION {{<<d>> \o rest : rest \in Orders(S \ {d})} : d \in S}

(***************************************************************************)
(* State.                                                                  *)
(*   ollama_available  ContentAnalyzer.ollama_available, set by __init__   *)
(*   op, arg           the operation called and its arguments, with the    *)
(*                     answers its collaborators give during the call      *)
(*   pc                "call" while the operation is pending, "done" after *)
(*   result            the value the operation returned                    *)
(*   log               what the operation did on the way                   *)
(*   link_analysis_cache   CommonCrawlAnalyzer.link_analysis_cache, by     *)
(*                     domain                                              *)
(*   analysis_cache    app.analysis_cache, by cache key                    *)
(*   now               time.time(), in seconds                             *)
(*   requests          the number of calls served so far                   *)
(*   sweep             the cleanup thread running clear_expired_cache: its  *)
(*                     position, current_time and expired_keys             *)
(***************************************************************************)
VARIABLES ollama_available, op, arg, pc, result, log,
          link_analysis_cache, analysis_cache, rate_limit_cache, now, requests,
          hash_collides, sweep, cached_at

vars == <<ollama_available, op, arg, pc, result, log,
          link_analysis_cache, analysis_cache, rate_limit_cache, now, requests,
          hash_collides, sweep, cached_at>>

service == <<link_analysis_cache, analysis_cache, rate_limit_cache, now, requests,
             hash_collides, sweep, cached_at>>

\* the cleanup thread between two rounds of clear_expired_cache
Asleep == [pc |-> "sleep", current_time |-> 0, expired_keys |-> {}]

\* the service before its first call: the caches empty
InitService ==
    /\ link_analysis_cache = <<>>
    /\ analysis_cache = <<>>
    /\ rate_limit_cache = <<>>
    /\ hash_collides = FALSE
    /\ sweep = Asleep
    /\ cached_at = <<>>
    /\ now = 0
    /\ requests = 0

\* All sequences over S of length at most n
RECURSIVE SeqsUpTo(_, _)
SeqsUpTo(S, n) ==
    IF n = 0 THEN {<<>>}
    ELSE LET shorter == SeqsUpTo(S, n - 1)
         IN  shorter \cup {Append(t, c) : t \in {u \in shorter : Len(u) = n - 1}, c \in S}

Texts == SeqsUpTo(Tokens, MaxTextLen)
RespTexts == SeqsUpTo(RespChars, MaxRespLen)

Replies ==
    {[status |-> st, response |-> <<>>] :
        st \in {"unreachable", "500", "200_invalid_json", "200_no_response_key"}}
    \cup {[status |-> "200", response |-> r] : r \in RespTexts}

NoReply == [status |-> "not_called", response |-> <<>>]
NoLog == [ollama_calls |-> 0, analyzed |-> <<>>, post_results |-> <<>>]

(***************************************************************************)
(* ContentAnalyzer.analyze_text called on one text.                        *)
(***************************************************************************)
InitText ==
    /\ ollama_available \in BOOLEAN
    /\ op = "analyze_text"
    /\ \E text \in Texts, reply \in Replies :
           arg = [text |-> text, reply |-> IF ollama_available THEN reply ELSE NoReply]
    /\ pc = "call"
    /\ result = None
    /\ log = NoLog
    /\ InitService

AnalyzeText ==
    /\ pc = "call" /\ op = "analyze_text"
    /\ result' = analyze_text(ollama_available, arg.text, arg.reply)
    /\ log' = [log EXCEPT !.ollama_calls = OllamaCalls(ollama_available, arg.text)]
    /\ pc' = "done"
    /\ UNCHANGED <<ollama_available, op, arg, service>>

NextText == AnalyzeText

SpecText == InitText /\ [][NextText]_vars

(***************************************************************************)
(* ContentAnalyzer.analyze_with_patterns from the match counts on.         *)
(***************************************************************************)
InitCounts ==
    /\ ollama_available = FALSE
    /\ op = "classify_counts"
    /\ \E t \in 0..MaxMatches, f \in 0..MaxMatches :
           arg = [transphobic_count |-> t, friendly_count |-> f]
    /\ pc = "call"
    /\ result = None
    /\ log = NoLog
    /\ InitService

PatternVerdict ==
    /\ pc = "call" /\ op = "classify_counts"
    /\ result' = ClassifyCounts(arg.transphobic_count, arg.friendly_count)
    /\ pc' = "done"
    /\ UNCHANGED <<ollama_available, op, arg, log, service>>

NextCounts == PatternVerdict

SpecCounts == InitCounts /\ [][NextCounts]_vars

(***************************************************************************)
(* ContentAnalyzer.analyze_profile called on one list of posts.  The lists *)
(* are those made of two runs of equal posts, of up to MaxPosts posts in   *)
(* all; a post is a text with the backend's answer to the call made for    *)
(* it: an empty, a neutral, a transphobic or a friendly text when the      *)
(* backend is not called or unreachable, or a text the backend classifies  *)
(* ("2", "0") or answers without a digit ("x").                            *)
(***************************************************************************)
NeutralText == <<"a", "a", "a", "a", "a">>
Unreachable == [status |-> "unreachable", response |-> <<>>]
Answer(c) == [status |-> "200", response |-> <<c>>]

PostKinds(available) ==
    IF available
    THEN {[text |-> <<>>, reply |-> Unreachable],
          [text |-> NeutralText, reply |-> Unreachable],
          [text |-> <<"P">>, reply |-> Unreachable],
          [text |-> <<"F">>, reply |-> Unreachable],
          [text |-> NeutralText, reply |-> Answer("2")],
          [text |-> NeutralText, reply |-> Answer("0")],
          [text |-> NeutralText, reply |-> Answer("x")]}
    ELSE {[text |-> t, reply |-> NoReply] : t \in {<<>>, NeutralText, <<"P">>, <<"F">>}}

Run(post, n) == [i \in 1..n |-> post]

InitProfile ==
    /\ ollama_available \in BOOLEAN
    /\ op = "analyze_profile"
    /\ \E a \in PostKinds(ollama_available), b \in PostKinds(ollama_available) :
       \E n1 \in 0..MaxPosts : \E n2 \in 0..(MaxPosts - n1) :
           arg = [posts |-> Run(a, n1) \o Run(b, n2)]
    /\ pc = "call"
    /\ result = None
    /\ log = NoLog
    /\ InitService

AnalyzeProfile ==
    /\ pc = "call" /\ op = "analyze_profile"
    /\ result' = analyze_profile(ollama_available, arg.posts)
    /\ log' = [ollama_calls |-> OllamaCallsEach(ollama_available, AnalyzedPosts(arg.posts)),
               analyzed |-> AnalyzedPosts(arg.posts),
               post_results |-> PostResults(ollama_available, arg.posts)]
    /\ pc' = "done"
    /\ UNCHANGED <<ollama_available, op, arg, service>>

NextProfile == AnalyzeProfile

SpecProfile == InitProfile /\ [][NextProfile]_vars

(***************************************************************************)
(* The service: app.py's handlers for /analyze/profile and /analyze/url    *)
(* and direct calls of cc_analyzer, working on the two caches.             *)
(***************************************************************************)
CACHE_EXPIRY == 24 * 60 * 60

ConfError == Rat(1, 10)
AdjustBelow == Rat(6, 10)
AdjustAbove == Rat(7, 10)

\* cache_key of analyze_profile and of analyze_url
ProfileKey(data) ==
    [kind |-> "profile", platform |-> data.platform, identifier |-> data.identifier]
UrlKey(data) == [kind |-> "url", url |-> data.url]

\* the body returned when nothing could be fetched, or on an exception
ErrorBody(error) ==
    [error |-> error, classification |-> 1, confidence |-> NumOf(ConfError)]

\* the test of the adjustment, had it been result['confidence'] <= 0.6
ShouldAdjust_inclusive(confidence, secondary_confidence) ==
    NLe(confidence, AdjustBelow) /\ RLt(AdjustAbove, secondary_confidence)

\* result['confidence'] < 0.6 and cc_results['confidence'] > 0.7
ShouldAdjust(confidence, secondary_confidence) ==
    NLt(confidence, AdjustBelow) /\ RLt(AdjustAbove, secondary_confidence)

\* the adjustment, had it added the two confidences without halving the sum
Adjust_unaveraged(res, secondary, field, tag) ==
    IF ShouldAdjust(res.confidence, secondary.confidence)
    THEN ("classification_adjusted_by" :> tag)
         @@ (field :> secondary)
         @@ [res EXCEPT !.classification = secondary.classification,
                        !.confidence = NAddR(res.confidence, secondary.confidence)]
    ELSE (field :> secondary) @@ res

\* the adjustment, had it averaged the confidences and kept the classification
Adjust_keeps_classification(res, secondary, field, tag) ==
    IF ShouldAdjust(res.confidence, secondary.confidence)
    THEN ("classification_adjusted_by" :> tag)
         @@ (field :> secondary)
         @@ [res EXCEPT !.confidence = NHalf(NAddR(res.confidence, secondary.confidence))]
    ELSE (field :> secondary) @@ res

\* the secondary verdict is stored under field and, if the test passes, the
\* classification is replaced, the confidence averaged and the tag set
Adjust(res, secondary, field, tag) ==
    IF ShouldAdjust(res.confidence, secondary.confidence)
    THEN ("classification_adjusted_by" :> tag)
         @@ (field :> secondary)
         @@ [res EXCEPT !.classification = secondary.classification,
                        !.confidence = NHalf(NAddR(res.confidence, secondary.confidence))]
    ELSE (field :> secondary) @@ res

NoSecondary == [called |-> FALSE]

\* Outcome, had the exception handler emptied the result cache
Outcome_clearing(status, body, cache, memo, path) ==
    [status |-> status, body |-> body,
     cache |-> IF status = 500 THEN <<>> ELSE cache, memo |-> memo, log |-> path]

\* what a handler hands back: the response, the two caches after the call
\* and what was done
Outcome(status, body, cache, memo, path) ==
    [status |-> status, body |-> body, cache |-> cache, memo |-> memo, log |-> path]

\* the end of a handler that analyzed: the result is cached and returned
Analyzed(key, body, cache, memo, primary, secondary) ==
    Outcome(200, body, (key :> body) @@ cache, memo,
            [path |-> "analyzed", primary |-> primary, secondary |-> secondary])

\* analyze_profile from the two analyses on: links is None when the profile
\* has no links
ProfileAnalyzed(key, primary, links, cache, memo, clock) ==
    IF links = None
    THEN Analyzed(key, ("timestamp" :> clock) @@ primary, cache, memo,
                  primary, NoSecondary)
    ELSE Analyzed(key,
                  ("timestamp" :> clock)
                  @@ Adjust(primary, links.result, "linked_sites_analysis", "linked_sites"),
                  cache, links.memo, primary,
                  [called |-> TRUE, result |-> links.result])

\* profile_handler, had it answered from the cache whatever the entry's age
profile_handler_any_age(data, fetch, order, world, available, cache, memo, clock) ==
    IF data = None THEN
        Outcome(400, [error |-> "Missing identifier or platform"], cache, memo,
                [path |-> "bad_request"])
    ELSE IF ProfileKey(data) \in DOMAIN cache THEN
        Outcome(200, cache[ProfileKey(data)], cache, memo, [path |-> "cache_hit"])
    ELSE IF fetch.kind = "raises" THEN
        Outcome(500, ErrorBody("Analysis failed"), cache, memo, [path |-> "exception"])
    ELSE IF fetch.kind = "none" \/ fetch.posts = <<>> THEN
        Outcome(200, ErrorBody("Could not fetch sufficient data from profile"),
                cache, memo, [path |-> "no_data"])
    ELSE
        ProfileAnalyzed(ProfileKey(data),
                        analyze_profile(available, fetch.posts),
                        IF fetch.links # <<>>
                        THEN analyze_links(fetch.links, order, memo, world)
                        ELSE None,
                        cache, memo, clock)

\* the handler of POST /analyze/profile: data is the request's JSON body,
\* fetch what web_analyzer.fetch_profile_data does, order and world what
\* analyze_links meets
profile_handler(data, fetch, order, world, available, cache, memo, clock) ==
    IF data = None THEN
        Outcome(400, [error |-> "Missing identifier or platform"], cache, memo,
                [path |-> "bad_request"])
    ELSE IF ProfileKey(data) \in DOMAIN cache
            /\ cache[ProfileKey(data)].timestamp > clock - CACHE_EXPIRY THEN
        Outcome(200, cache[ProfileKey(data)], cache, memo, [path |-> "cache_hit"])
    ELSE IF fetch.kind = "raises" THEN
        Outcome(500, ErrorBody("Analysis failed"), cache, memo, [path |-> "exception"])
    ELSE IF fetch.kind = "none" \/ fetch.posts = <<>> THEN
        Outcome(200, ErrorBody("Could not fetch sufficient data from profile"),
                cache, memo, [path |-> "no_data"])
    ELSE
        ProfileAnalyzed(ProfileKey(data),
                        analyze_profile(available, fetch.posts),
                        IF fetch.links # <<>>
                        THEN analyze_links(fetch.links, order, memo, world)
                        ELSE None,
                        cache, memo, clock)

\* analyze_url from the two analyses on
UrlAnalyzed(key, primary, single, cache) ==
    Analyzed(key,
             Adjust(primary, single.result, "common_crawl_analysis", "common_crawl"),
             cache, single.memo, primary,
             [called |-> TRUE, result |-> single.result])

\* a call that raises instead of returning
Raised == [raised |-> TRUE]

\* the handler of POST /analyze/url: content is what
\* web_analyzer.fetch_url_content returns, None or [text |-> the page's
\* text], or Raised when a call in the try block raises; reply is the
\* backend's answer
url_handler(data, content, reply, world, available, cache, memo) ==
    IF data = None THEN
        Outcome(400, [error |-> "No URL provided"], cache, memo,
                [path |-> "bad_request"])
    ELSE IF UrlKey(data) \in DOMAIN cache THEN
        Outcome(200, cache[UrlKey(data)], cache, memo, [path |-> "cache_hit"])
    ELSE IF content = Raised THEN
        Outcome(500, ErrorBody("Analysis failed"), cache, memo, [path |-> "exception"])
    ELSE IF content = None \/ content.text = <<>> THEN
        Outcome(200, ErrorBody("Could not fetch content from URL"), cache, memo,
                [path |-> "no_data"])
    ELSE
        UrlAnalyzed(UrlKey(data),
                    [analyze_text(available, content.text, reply)
                        EXCEPT !.confidence = NumOf(@)],
                    analyze_single_url(data.url, memo, world),
                    cache)

(***************************************************************************)
(* POST /verify/submission.  An identifier is a string in the parts of a   *)
(* URL, as the argument of _get_domain_from_url.  bad_identifiers is the   *)
(* list WebAnalyzer._load_bad_identifiers falls back to.                   *)
(***************************************************************************)
bad_identifiers ==
    {<<h>> : h \in {"facebook.com", "twitter.com", "reddit.com", "youtube.com",
                    "change.org", "google.com", "instagram.com"}}

\* '/' in identifier
HasSlash(identifier) ==
    \E i \in 1..Len(identifier) : identifier[i] \in {"https://", "/p"}

\* the domain is_bad_identifier looks up for an identifier that holds a '/'
BadIdentifierDomain(netloc) ==
    IF netloc # <<>> /\ Head(netloc) = "www." THEN Tail(netloc) ELSE netloc

\* WebAnalyzer.is_bad_identifier
is_bad_identifier(identifier) ==
    IF HasSlash(identifier) THEN
        BadIdentifierDomain(Netloc(IF Head(identifier) = "https://"
                                   THEN Tail(identifier) ELSE identifier))
            \in bad_identifiers
    ELSE identifier \in bad_identifiers

\* label_map.get(classification, 'gray-area')
label_map(classification) ==
    CASE classification = 0 -> "t-friendly"
      [] classification = 2 -> "transphobic"
      [] OTHER -> "gray-area"

\* the recommendation, had the first test been result['confidence'] >= 0.8
Recommendation_inclusive(verified, confidence) ==
    IF ~verified /\ NGe(confidence, Rat(8, 10)) THEN "reject"
    ELSE IF ~verified /\ NGt(confidence, Rat(5, 10)) THEN "gray_area"
    ELSE "accept"

\* the recommendation of verify_submission
Recommendation(verified, confidence) ==
    IF ~verified /\ NGt(confidence, Rat(8, 10)) THEN "reject"
    ELSE IF ~verified /\ NGt(confidence, Rat(5, 10)) THEN "gray_area"
    ELSE "accept"

\* the verification record from the profile verdict on
Verification(recommended_label, proposed_label, confidence) ==
    [verified |-> recommended_label = proposed_label,
     confidence |-> confidence,
     ml_recommended_label |-> recommended_label,
     recommendation |-> Recommendation(recommended_label = proposed_label, confidence)]

Verified(primary, proposed_label) ==
    [status |-> 200,
     body |-> Verification(label_map(primary.classification), proposed_label,
                           primary.confidence),
     log |-> [path |-> "verified", fetched |-> TRUE, primary |-> primary]]

\* the handler of POST /verify/submission: data is the request's JSON body,
\* fetch what web_analyzer.fetch_profile_data does
verify_submission(data, fetch, available) ==
    IF data = None THEN
        [status |-> 400, body |-> [error |-> "Missing identifier or proposed label"],
         log |-> [path |-> "bad_request", fetched |-> FALSE]]
    ELSE IF is_bad_identifier(data.identifier) THEN
        [status |-> 200,
         body |-> [verified |-> FALSE, reason |-> "bad_identifier",
                   recommendation |-> "reject"],
         log |-> [path |-> "bad_identifier", fetched |-> FALSE]]
    ELSE IF fetch.kind = "raises" THEN
        [status |-> 500,
         body |-> [verified |-> FALSE, reason |-> "verification_error",
                   recommendation |-> "gray_area"],
         log |-> [path |-> "exception", fetched |-> TRUE]]
    ELSE IF fetch.kind = "none" \/ fetch.posts = <<>> THEN
        [status |-> 200,
         body |-> [verified |-> FALSE, confidence |-> NumOf(Rat(1, 10)),
                   reason |-> "insufficient_data", recommendation |-> "gray_area"],
         log |-> [path |-> "no_data", fetched |-> TRUE]]
    ELSE Verified(analyze_profile(available, fetch.posts), data.proposed_label)

(***************************************************************************)
(* POST /analyze/text and the sweep of analysis_cache.  hash(text) of a    *)
(* process either tells the texts of the model apart or sends them to one  *)
(* value.                                                                  *)
(***************************************************************************)
hash(text, collides) == IF collides THEN <<>> ELSE text

TextKey(data, collides) == [kind |-> "text", hash |-> hash(data.text, collides)]

\* the handler of POST /analyze/text: data is the request's JSON body, reply
\* the backend's answer
text_handler(data, reply, available, cache, memo, collides) ==
    IF data = None THEN
        Outcome(400, [error |-> "No text provided"], cache, memo,
                [path |-> "bad_request"])
    ELSE IF TextKey(data, collides) \in DOMAIN cache THEN
        Outcome(200, cache[TextKey(data, collides)], cache, memo,
                [path |-> "cache_hit"])
    ELSE
        Analyzed(TextKey(data, collides),
                 [analyze_text(available, data.text, reply)
                     EXCEPT !.confidence = NumOf(@)],
                 cache, memo,
                 [analyze_text(available, data.text, reply)
                     EXCEPT !.confidence = NumOf(@)],
                 NoSecondary)

\* value.get('timestamp', 0)
TimestampOf(value) == IF "timestamp" \in DOMAIN value THEN value.timestamp ELSE 0

\* clear_expired_cache: the keys one round removes
expired_keys(cache, current_time) ==
    {key \in DOMAIN cache : TimestampOf(cache[key]) < current_time - CACHE_EXPIRY}

(***************************************************************************)
(* The rate limiter.  Time is counted in whole seconds.  rate_limit is     *)
(* appended to app.before_request_funcs[None] once for each of the         *)
(* Registrations endpoints named in the loop, so every request runs it     *)
(* that many times, until one run answers.                                 *)
(***************************************************************************)
\* the key of rate_limit_cache for a request: the remote address, or the
\* X-Client-ID header of a local request
ClientKey(request) ==
    IF request.remote_addr = "127.0.0.1" THEN request.client_id
    ELSE request.remote_addr

NewWindow(ip, cache, clock) ==
    [cache |-> (ip :> [timestamp |-> clock, count |-> 1]) @@ cache,
     response |-> None]

TooMany(ip, cache, clock) ==
    [status |-> 429,
     body |-> [error |-> "Rate limit exceeded",
               retry_after |-> RATE_LIMIT_WINDOW - (clock - cache[ip].timestamp)]]

\* rate_limit: the cache after the call and the response, None when the
\* request goes on
rate_limit(ip, cache, clock) ==
    IF ip \notin DOMAIN cache THEN NewWindow(ip, cache, clock)
    ELSE IF clock - cache[ip].timestamp > RATE_LIMIT_WINDOW
    THEN NewWindow(ip, cache, clock)
    ELSE [cache |-> [cache EXCEPT ![ip].count = @ + 1],
          response |-> IF cache[ip].count + 1 > RATE_LIMIT_MAX
                       THEN TooMany(ip, cache, clock) ELSE None]

\* the before_request functions of a request, n of them still to run
RECURSIVE preprocess_request(_, _, _, _)
preprocess_request(n, ip, out, clock) ==
    IF n = 0 \/ out.response # None THEN out
    ELSE preprocess_request(n - 1, ip, rate_limit(ip, out.cache, clock), clock)

\* clear_expired_rate_limits: the cache after one round
ExpiredRateLimits(cache, clock) ==
    {ip \in DOMAIN cache : clock - cache[ip].timestamp > RATE_LIMIT_WINDOW}

Without(cache, keys) == [key \in DOMAIN cache \ keys |-> cache[key]]

(***************************************************************************)
(* The calls made of the service.                                          *)
(***************************************************************************)
UrlKnownPhobic == <<"https://", "www.", "kiwifarms.net", "/p">>
UrlKnownPhobicUpper == <<"WWW.", "KIWIFARMS.NET">>
UrlKnownFriendly == <<"https://", "glaad.org">>
UrlUnknown == <<"https://", "example.com", "/p">>
UrlEmpty == <<>>
UrlNoHost == <<"/p">>

LinkLists ==
    {<<>>, <<UrlEmpty, UrlNoHost>>, <<UrlKnownPhobic>>, <<UrlUnknown>>,
     <<UrlKnownPhobicUpper, UrlUnknown>>}

Urls == {UrlKnownPhobic, UrlKnownFriendly, UrlUnknown}

\* what the archive holds for a domain: nothing, a record that cannot be
\* fetched, or one transphobic page
ArchiveAnswers == {<<>>, <<None>>, <<[text |-> <<"P">>]>>}

\* the domains of a list of links the archive may be asked about
UnknownDomains(links) ==
    {d \in DomainsOf(links) : _check_known_domain_stance(d) = None}

\* the domain analyze_single_url may ask the archive about
UnknownDomain(url) ==
    {d \in {_get_domain_from_url(url)} : _check_known_domain_stance(d) = None}

\* the archive's answers for the domains in D
Worlds(D) == [D -> ArchiveAnswers]

Post(available, text) ==
    [text |-> text, reply |-> IF available THEN Unreachable ELSE NoReply]

PostLists(available) ==
    LET f == Post(available, <<"F">>)
        t == Post(available, <<"P">>)
    IN  {<<>>, <<f>>, <<f, f>>, <<f, f, f>>, <<f, t>>}
        \cup (IF available
              THEN {<<[text |-> NeutralText, reply |-> Answer("2")]>>}
              ELSE {})

ProfileBodies == {None, [identifier |-> "alice", platform |-> "generic"]}

ProfileFetches(available) ==
    {[kind |-> "raises"], [kind |-> "none"]}
    \cup {[kind |-> "data", posts |-> posts, links |-> links] :
            posts \in PostLists(available), links \in LinkLists}

FetchLinks(fetch) ==
    IF fetch.kind = "data" /\ fetch.posts # <<>> THEN fetch.links ELSE <<>>

UrlBodies == {None} \cup {[url |-> url] : url \in Urls}

Pages(available) ==
    {[content |-> None, reply |-> NoReply], [content |-> Raised, reply |-> NoReply]}
    \cup {[content |-> [text |-> text],
            reply |-> IF available THEN Unreachable ELSE NoReply] :
            text \in {<<>>, <<"a", "a">>, <<"F">>, <<"P">>}}
    \cup (IF available
          THEN {[content |-> [text |-> NeutralText], reply |-> Answer("0")]}
          ELSE {})

\* the times of the last write of each key, after a handler has turned
\* the cache before into the cache after
Stamped(times, before, after, clock) ==
    [key \in DOMAIN times \cup DOMAIN after |->
        IF key \in DOMAIN after /\ (key \notin DOMAIN before \/ before[key] # after[key])
        THEN clock ELSE times[key]]

\* the state after a handler has answered; cached_at keeps the time at
\* which each key was last written
Respond(path, request, out) ==
    /\ op' = path
    /\ arg' = request
    /\ result' = [status |-> out.status, body |-> out.body]
    /\ log' = out.log
    /\ analysis_cache' = out.cache
    /\ link_analysis_cache' = out.memo
    /\ cached_at' = Stamped(cached_at, analysis_cache, out.cache, now)

\* the state after a call of cc_analyzer has returned
Return(name, args, out) ==
    /\ op' = name
    /\ arg' = args
    /\ result' = out.result
    /\ log' = [queried |-> out.queried]
    /\ link_analysis_cache' = out.memo

\* POST /analyze/profile
HandleAnalyzeProfile ==
    /\ pc = "idle" /\ requests < MaxRequests
    /\ \E data \in ProfileBodies :
          LET hit == /\ data # None
                     /\ ProfileKey(data) \in DOMAIN analysis_cache
                     /\ analysis_cache[ProfileKey(data)].timestamp > now - CACHE_EXPIRY
          IN
          \E fetch \in IF data = None \/ hit THEN {[kind |-> "none"]}
                       ELSE ProfileFetches(ollama_available) :
          \E world \in Worlds(UnknownDomains(FetchLinks(fetch))
                              \ DOMAIN link_analysis_cache) :
          \E order \in Orders(DomainsOf(FetchLinks(fetch))) :
             Respond("/analyze/profile",
                     [data |-> data, fetch |-> fetch, world |-> world, order |-> order],
                     profile_handler(data, fetch, order, world, ollama_available,
                                     analysis_cache, link_analysis_cache, now))
    /\ requests' = requests + 1
    /\ UNCHANGED <<ollama_available, pc, now, rate_limit_cache, hash_collides, sweep>>

\* POST /analyze/url
HandleAnalyzeUrl ==
    /\ pc = "idle" /\ requests < MaxRequests
    /\ \E data \in UrlBodies :
          LET hit == data # None /\ UrlKey(data) \in DOMAIN analysis_cache IN
          \E page \in IF data = None \/ hit
                      THEN {[content |-> None, reply |-> NoReply]}
                      ELSE Pages(ollama_available) :
          \E world \in Worlds(IF data = None \/ hit \/ page.content \in {None, Raised}
                              THEN {}
                              ELSE UnknownDomain(data.url)
                                   \ DOMAIN link_analysis_cache) :
             Respond("/analyze/url",
                     [data |-> data, page |-> page, world |-> world],
                     url_handler(data, page.content, page.reply, world,
                                 ollama_available, analysis_cache,
                                 link_analysis_cache))
    /\ requests' = requests + 1
    /\ UNCHANGED <<ollama_available, pc, now, rate_limit_cache, hash_collides, sweep>>

\* a call of cc_analyzer.analyze_links
AnalyzeLinks ==
    /\ pc = "idle" /\ requests < MaxRequests
    /\ \E links \in LinkLists :
       \E world \in Worlds(UnknownDomains(links) \ DOMAIN link_analysis_cache) :
       \E order \in Orders(DomainsOf(links)) :
          Return("analyze_links",
                 [links |-> links, world |-> world, order |-> order],
                 analyze_links(links, order, link_analysis_cache, world))
    /\ requests' = requests + 1
    /\ UNCHANGED <<ollama_available, pc, now, analysis_cache,
                   rate_limit_cache, hash_collides, sweep, cached_at>>

\* a call of cc_analyzer.analyze_single_url
AnalyzeSingleUrl ==
    /\ pc = "idle" /\ requests < MaxRequests
    /\ \E url \in Urls \cup {UrlEmpty} :
       \E world \in Worlds(UnknownDomain(url) \ DOMAIN link_analysis_cache) :
          Return("analyze_single_url", [url |-> url, world |-> world],
                 analyze_single_url(url, link_analysis_cache, world))
    /\ requests' = requests + 1
    /\ UNCHANGED <<ollama_available, pc, now, analysis_cache,
                   rate_limit_cache, hash_collides, sweep, cached_at>>

InitCalls ==
    /\ ollama_available \in BOOLEAN
    /\ op = "start"
    /\ arg = None
    /\ pc = "idle"
    /\ result = None
    /\ log = NoLog
    /\ InitService

NextCalls ==
    \/ HandleAnalyzeProfile
    \/ HandleAnalyzeUrl
    \/ AnalyzeLinks
    \/ AnalyzeSingleUrl

SpecCalls == InitCalls /\ [][NextCalls]_vars

(***************************************************************************)
(* The adjustment of app.py lines 145-151 and 198-204 applied to one pair  *)
(* of verdicts, with confidences on a grid of ConfSteps steps.             *)
(***************************************************************************)
Grid == {Rat(k, ConfSteps) : k \in 0..ConfSteps}

Adjustments ==
    {[field |-> "linked_sites_analysis", tag |-> "linked_sites"],
     [field |-> "common_crawl_analysis", tag |-> "common_crawl"]}

InitReconcile ==
    /\ ollama_available = FALSE
    /\ op = "reconcile"
    /\ \E c1 \in {0, 1, 2}, c2 \in {0, 1, 2}, p \in Grid, q \in Grid, how \in Adjustments :
           arg = [primary |-> [classification |-> c1, confidence |-> NumOf(p)],
                  secondary |-> [classification |-> c2, confidence |-> q],
                  how |-> how]
    /\ pc = "call"
    /\ result = None
    /\ log = NoLog
    /\ InitService

Reconcile ==
    /\ pc = "call" /\ op = "reconcile"
    /\ result' = Adjust(arg.primary, arg.secondary, arg.how.field, arg.how.tag)
    /\ pc' = "done"
    /\ UNCHANGED <<ollama_available, op, arg, log, service>>

NextReconcile == Reconcile

SpecReconcile == InitReconcile /\ [][NextReconcile]_vars

(***************************************************************************)
(* cc_analyzer called about one host: each host of the two known lists and *)
(* an unknown one, written plainly or with scheme, "www." and path, alone  *)
(* or next to a link to an unknown domain.                                 *)
(***************************************************************************)
Hosts ==
    {d[1] : d \in known_transphobic_domains \cup known_transfriendly_domains}
    \cup {"example.com"}

UrlsOfHost(host) == {<<host>>, <<"https://", "www.", host, "/p">>}

LinkListsOfHost(host) ==
    {<<<<host>>>>, <<<<"https://", "www.", host, "/p">>, UrlUnknown>>}

InitKnown ==
    /\ ollama_available = FALSE
    /\ op = "start"
    /\ \E host \in Hosts : arg = [host |-> host]
    /\ pc = "idle"
    /\ result = None
    /\ log = NoLog
    /\ InitService

\* a call of cc_analyzer.analyze_single_url about the host
SingleUrlOfHost ==
    /\ pc = "idle" /\ requests < MaxRequests
    /\ \E url \in UrlsOfHost(arg.host) :
       \E world \in Worlds(UnknownDomain(url) \ DOMAIN link_analysis_cache) :
          Return("analyze_single_url",
                 [host |-> arg.host, url |-> url, world |-> world],
                 analyze_single_url(url, link_analysis_cache, world))
    /\ requests' = requests + 1
    /\ UNCHANGED <<ollama_available, pc, now, analysis_cache,
                   rate_limit_cache, hash_collides, sweep, cached_at>>

\* a call of cc_analyzer.analyze_links with a link to the host
LinksOfHost ==
    /\ pc = "idle" /\ requests < MaxRequests
    /\ \E links \in LinkListsOfHost(arg.host) :
       \E world \in Worlds(UnknownDomains(links) \ DOMAIN link_analysis_cache) :
       \E order \in Orders(DomainsOf(links)) :
          Return("analyze_links",
                 [host |-> arg.host, links |-> links, world |-> world, order |-> order],
                 analyze_links(links, order, link_analysis_cache, world))
    /\ requests' = requests + 1
    /\ UNCHANGED <<ollama_available, pc, now, analysis_cache,
                   rate_limit_cache, hash_collides, sweep, cached_at>>

NextKnown == SingleUrlOfHost \/ LinksOfHost

SpecKnown == InitKnown /\ [][NextKnown]_vars

(***************************************************************************)
(* CommonCrawlAnalyzer.analyze_links called once, with an empty memo, on   *)
(* links to up to MaxKnownLinks domains of the known lists, with or without *)
(* a link to another domain; the first link is given a second time, with   *)
(* "www.".  The set of domains is iterated in any order.                   *)
(***************************************************************************)
KnownLinkHosts ==
    <<"kiwifarms.net", "glaad.org", "ovarit.com", "pflag.org", "heritage.org",
      "genspect.org">>
UnknownLinkHosts == <<"example.com">>

Range(seq) == {seq[i] : i \in 1..Len(seq)}

RECURSIVE LinksTo(_, _)
LinksTo(hosts, chosen) ==
    IF hosts = <<>> THEN <<>>
    ELSE (IF Head(hosts) \in chosen THEN <<<<"https://", Head(hosts)>>>> ELSE <<>>)
         \o LinksTo(Tail(hosts), chosen)

WithRepeat(links) ==
    IF links = <<>> THEN links ELSE Append(links, <<"www.">> \o Tail(Head(links)))

InitLinks ==
    /\ ollama_available = FALSE
    /\ op = "analyze_links"
    /\ \E known \in SUBSET Range(KnownLinkHosts), unknown \in SUBSET Range(UnknownLinkHosts) :
          /\ Cardinality(known) <= MaxKnownLinks
          /\ \E order \in Orders({<<h>> : h \in known \cup unknown}) :
             \E world \in Worlds({<<h>> : h \in unknown}) :
                arg = [links |-> WithRepeat(LinksTo(KnownLinkHosts \o UnknownLinkHosts,
                                                    known \cup unknown)),
                       order |-> order, world |-> world]
    /\ pc = "call"
    /\ result = None
    /\ log = NoLog
    /\ InitService

\* the state after the pending call of cc_analyzer has returned
Finish(out) ==
    /\ result' = out.result
    /\ log' = [queried |-> out.queried]
    /\ link_analysis_cache' = out.memo
    /\ pc' = "done"
    /\ UNCHANGED <<ollama_available, op, arg, analysis_cache, now, requests,
                   rate_limit_cache, hash_collides, sweep, cached_at>>

ReturnLinks ==
    /\ pc = "call" /\ op = "analyze_links"
    /\ Finish(analyze_links(arg.links, arg.order, link_analysis_cache, arg.world))

NextLinks == ReturnLinks

SpecLinks == InitLinks /\ [][NextLinks]_vars

(***************************************************************************)
(* Submissions to POST /verify/submission: identifiers that are and are    *)
(* not on the list, written as a name, a host or a URL, each with a        *)
(* proposed label, and profiles of one to seven equal posts.               *)
(***************************************************************************)
Identifiers ==
    {<<"alice">>, <<"example.com", "/p">>, <<"twitter.com">>,
     <<"twitter.com", "/p">>, <<"https://", "www.", "twitter.com", "/p">>,
     <<"www.", "twitter.com">>}

ProposedLabels == {"t-friendly", "gray-area", "transphobic", "friendly"}

Submissions ==
    {None} \cup {[identifier |-> identifier, proposed_label |-> label] :
                    identifier \in Identifiers, label \in ProposedLabels}

SubmissionFetches ==
    {[kind |-> "raises"], [kind |-> "none"]}
    \cup {[kind |-> "data", posts |-> posts] :
            posts \in {<<>>, <<Post(FALSE, <<"F">>), Post(FALSE, <<"P">>)>>}
                      \cup {Run(Post(FALSE, text), n) :
                               text \in {<<"F">>, <<"P">>, NeutralText},
                               n \in {1, 6, 7}}}

InitVerify ==
    /\ ollama_available = FALSE
    /\ op = "start"
    /\ arg = None
    /\ pc = "idle"
    /\ result = None
    /\ log = NoLog
    /\ InitService

Answer_verify(request, out) ==
    /\ op' = "/verify/submission"
    /\ arg' = request
    /\ result' = [status |-> out.status, body |-> out.body]
    /\ log' = out.log

\* POST /verify/submission
HandleVerifySubmission ==
    /\ pc = "idle" /\ requests < MaxRequests
    /\ \E data \in Submissions :
       \E fetch \in IF data = None \/ is_bad_identifier(data.identifier)
                    THEN {[kind |-> "none"]} ELSE SubmissionFetches :
          Answer_verify([data |-> data, fetch |-> fetch],
                        verify_submission(data, fetch, ollama_available))
    /\ requests' = requests + 1
    /\ UNCHANGED <<ollama_available, pc, now, analysis_cache,
                   link_analysis_cache, rate_limit_cache, hash_collides, sweep,
                   cached_at>>

NextVerify == HandleVerifySubmission

SpecVerify == InitVerify /\ [][NextVerify]_vars

(***************************************************************************)
(* CommonCrawlAnalyzer._get_domain_from_url called on one URL: an optional *)
(* scheme, up to MaxHostParts parts of a host name in either case, and an  *)
(* optional path.                                                          *)
(***************************************************************************)
HostParts == {"www.", "WWW.", "example.com", "EXAMPLE.COM", "kiwifarms.net"}

UrlStrings ==
    {scheme \o host \o path :
        scheme \in {<<>>, <<"https://">>},
        host \in SeqsUpTo(HostParts, MaxHostParts),
        path \in {<<>>, <<"/p">>}}

InitDomain ==
    /\ ollama_available = FALSE
    /\ op = "_get_domain_from_url"
    /\ \E url \in UrlStrings : arg = [url |-> url]
    /\ pc = "call"
    /\ result = None
    /\ log = NoLog
    /\ InitService

GetDomain ==
    /\ pc = "call" /\ op = "_get_domain_from_url"
    /\ result' = _get_domain_from_url(arg.url)
    /\ pc' = "done"
    /\ UNCHANGED <<ollama_available, op, arg, log, service>>

NextDomain == GetDomain

SpecDomain == InitDomain /\ [][NextDomain]_vars

(***************************************************************************)
(* Requests of two clients, one remote and one local with an X-Client-ID   *)
(* header, as time passes.  log counts for each client the requests it     *)
(* has made in its window: the window of a client begins with its first    *)
(* request and with its first request made more than RATE_LIMIT_WINDOW     *)
(* after the window began.                                                 *)
(***************************************************************************)
Clients ==
    {[remote_addr |-> "10.0.0.1", client_id |-> None],
     [remote_addr |-> "127.0.0.1", client_id |-> "dev"]}

Steps == {30, 31}

InitRate ==
    /\ ollama_available = FALSE
    /\ op = "start"
    /\ arg = None
    /\ pc = "idle"
    /\ result = None
    /\ log = <<>>
    /\ InitService

Seen(windows, ip, clock) ==
    IF ip \notin DOMAIN windows THEN (ip :> [first |-> clock, n |-> 1]) @@ windows
    ELSE IF clock - windows[ip].first > RATE_LIMIT_WINDOW
    THEN (ip :> [first |-> clock, n |-> 1]) @@ windows
    ELSE [windows EXCEPT ![ip].n = @ + 1]

\* the windows with the note whether a request of the client's window was
\* rejected
Noted(before, after, ip, response) ==
    [after EXCEPT ![ip] = [first |-> @.first, n |-> @.n,
                           limited |-> \/ response # None
                                       \/ (@.n > 1 /\ before[ip].limited)]]

\* the state after the before_request functions of a request have run
Admission(request, out) ==
    /\ op' = "before_request"
    /\ arg' = request
    /\ result' = out.response
    /\ rate_limit_cache' = out.cache
    /\ log' = Noted(log, Seen(log, ClientKey(request), now), ClientKey(request),
                     out.response)

\* a request to any endpoint, up to the call of its view function
BeforeRequest ==
    /\ pc = "idle" /\ requests < MaxRateRequests
    /\ \E request \in Clients :
          Admission(request,
                    preprocess_request(Registrations, ClientKey(request),
                                       [cache |-> rate_limit_cache, response |-> None],
                                       now))
    /\ requests' = requests + 1
    /\ UNCHANGED <<ollama_available, pc, now, analysis_cache,
                   link_analysis_cache, hash_collides, sweep, cached_at>>

\* one round of clear_expired_rate_limits
ClearExpiredRateLimits ==
    /\ pc = "idle"
    /\ ExpiredRateLimits(rate_limit_cache, now) # {}
    /\ rate_limit_cache'
           = Without(rate_limit_cache, ExpiredRateLimits(rate_limit_cache, now))
    /\ op' = "clear_expired_rate_limits"
    /\ arg' = None
    /\ result' = None
    /\ UNCHANGED <<ollama_available, pc, log, now, requests, analysis_cache,
                   link_analysis_cache, hash_collides, sweep, cached_at>>

\* time passes
Tick ==
    /\ pc = "idle"
    /\ \E step \in Steps : now + step <= MaxTime /\ now' = now + step
    /\ op' = "tick"
    /\ arg' = None
    /\ result' = None
    /\ UNCHANGED <<ollama_available, pc, log, requests, analysis_cache,
                   link_analysis_cache, rate_limit_cache, hash_collides, sweep,
                   cached_at>>

NextRate == BeforeRequest \/ ClearExpiredRateLimits \/ Tick

SpecRate == InitRate /\ [][NextRate]_vars

(***************************************************************************)
(* The three caching handlers and the sweep of analysis_cache as time      *)
(* passes.  The clock starts at Epoch seconds and runs for up to MaxAge    *)
(* seconds, in steps of half of CACHE_EXPIRY and of a second more.  The    *)
(* sweep runs as a whole between two requests.                             *)
(***************************************************************************)
TextBodies == {None, [text |-> <<"F">>], [text |-> <<"P">>]}

Waits == {CACHE_EXPIRY \div 2, CACHE_EXPIRY \div 2 + 1}

InitCache ==
    /\ ollama_available = FALSE
    /\ op = "start"
    /\ arg = None
    /\ pc = "idle"
    /\ result = None
    /\ log = NoLog
    /\ link_analysis_cache = <<>>
    /\ analysis_cache = <<>>
    /\ rate_limit_cache = <<>>
    /\ now = Epoch
    /\ requests = 0
    /\ hash_collides \in BOOLEAN
    /\ sweep = Asleep
    /\ cached_at = <<>>

\* POST /analyze/text
HandleAnalyzeText ==
    /\ pc = "idle" /\ requests < MaxRequests
    /\ \E data \in TextBodies :
          Respond("/analyze/text",
                  [data |-> data],
                  text_handler(data,
                               IF ollama_available THEN Unreachable ELSE NoReply,
                               ollama_available, analysis_cache,
                               link_analysis_cache, hash_collides))
    /\ requests' = requests + 1
    /\ UNCHANGED <<ollama_available, pc, now, rate_limit_cache, hash_collides, sweep>>

\* one round of clear_expired_cache
ClearExpiredCache ==
    /\ pc = "idle"
    /\ op' = "clear_expired_cache"
    /\ arg' = [before |-> DOMAIN analysis_cache]
    /\ result' = [removed |-> expired_keys(analysis_cache, now)]
    /\ log' = NoLog
    /\ analysis_cache' = Without(analysis_cache, expired_keys(analysis_cache, now))
    /\ UNCHANGED <<ollama_available, pc, now, requests, link_analysis_cache,
                   rate_limit_cache, hash_collides, sweep, cached_at>>

\* time passes
Wait ==
    /\ pc = "idle"
    /\ \E wait \in Waits : now + wait <= Epoch + MaxAge /\ now' = now + wait
    /\ op' = "wait"
    /\ arg' = None
    /\ result' = None
    /\ log' = NoLog
    /\ UNCHANGED <<ollama_available, pc, requests, analysis_cache,
                   link_analysis_cache, rate_limit_cache, hash_collides, sweep, cached_at>>

NextCache ==
    \/ HandleAnalyzeText
    \/ HandleAnalyzeUrl
    \/ HandleAnalyzeProfile
    \/ ClearExpiredCache
    \/ Wait

SpecCache == InitCache /\ [][NextCache]_vars

(***************************************************************************)
(* CommonCrawlAnalyzer._analyze_domain_content from the match counts on.   *)
(***************************************************************************)
InitSiteCounts ==
    /\ ollama_available = FALSE
    /\ op = "site_counts"
    /\ \E t \in 0..MaxMatches, f \in 0..MaxMatches :
           arg = [transphobic_count |-> t, friendly_count |-> f]
    /\ pc = "call"
    /\ result = None
    /\ log = NoLog
    /\ InitService

SiteVerdict ==
    /\ pc = "call" /\ op = "site_counts"
    /\ result' = SiteClassifyCounts(arg.transphobic_count, arg.friendly_count)
    /\ pc' = "done"
    /\ UNCHANGED <<ollama_available, op, arg, log, service>>

NextSiteCounts == SiteVerdict

SpecSiteCounts == InitSiteCounts /\ [][NextSiteCounts]_vars

(***************************************************************************)
(* analyze_text and POST /analyze/text given any JSON value as text.  A    *)
(* value is a string or one of null, 0, 42, true, [], ['a'] and {'a': 1};  *)
(* truthy is bool(value), hashable whether hash(value) returns.  The       *)
(* handler runs on the cache it is given, which holds no key of a value    *)
(* that is not a string.                                                   *)
(***************************************************************************)
Str(text) == [type |-> "str", truthy |-> text # <<>>, hashable |-> TRUE, text |-> text]

NonStr(repr, truthy, hashable) ==
    [type |-> repr, truthy |-> truthy, hashable |-> hashable, text |-> <<>>]

NonStrings ==
    {NonStr("null", FALSE, TRUE), NonStr("0", FALSE, TRUE), NonStr("42", TRUE, TRUE),
     NonStr("true", TRUE, TRUE), NonStr("[]", FALSE, FALSE), NonStr("['a']", TRUE, FALSE),
     NonStr("{'a': 1}", TRUE, FALSE)}

\* ContentAnalyzer.analyze_text on a value: "not text" is decided by the
\* value's truth, and text.strip() raises AttributeError on a value that
\* is not a string
analyze_text_value(available, value, reply) ==
    IF ~value.truthy THEN
        [classification |-> 1,
         label |-> labels(1),
         confidence |-> ConfInsufficient,
         error |-> "insufficient_text"]
    ELSE IF value.type # "str" THEN Raised
    ELSE analyze_text(available, value.text, reply)

\* f"text:{hash(text)}"
ValueKey(value, collides) ==
    IF value.type = "str" THEN TextKey([text |-> value.text], collides)
    ELSE [kind |-> "text", hash |-> <<value.type>>]

\* the end of the handler once analyze_text has returned or raised: an
\* exception leaves the view function before the cache is written
ValueAnalyzed(key, analysis, cache, memo) ==
    IF analysis = Raised THEN
        Outcome(500, Raised, cache, memo, [path |-> "uncaught"])
    ELSE
        Analyzed(key, [analysis EXCEPT !.confidence = NumOf(@)], cache, memo,
                 [analysis EXCEPT !.confidence = NumOf(@)], NoSecondary)

\* the handler of POST /analyze/text on a body whose field text is a value:
\* hash(text) raises TypeError on a list and on a dict
text_value_handler(data, reply, available, cache, memo, collides) ==
    IF data = None THEN
        Outcome(400, [error |-> "No text provided"], cache, memo,
                [path |-> "bad_request"])
    ELSE IF ~data.text.hashable THEN
        Outcome(500, Raised, cache, memo, [path |-> "uncaught"])
    ELSE IF ValueKey(data.text, collides) \in DOMAIN cache THEN
        Outcome(200, cache[ValueKey(data.text, collides)], cache, memo,
                [path |-> "cache_hit"])
    ELSE
        ValueAnalyzed(ValueKey(data.text, collides),
                      analyze_text_value(available, data.text, reply), cache, memo)

TextValues == {Str(text) : text \in SeqsUpTo(Tokens, MaxValueLen)} \cup NonStrings

ValueReplies(available) == IF available THEN {Unreachable, Answer("2")} ELSE {NoReply}

InitValues ==
    /\ ollama_available \in BOOLEAN
    /\ op \in {"analyze_text", "/analyze/text"}
    /\ \E value \in TextValues, reply \in ValueReplies(ollama_available) :
           arg = [data |-> [text |-> value], reply |-> reply]
    /\ pc = "call"
    /\ result = None
    /\ log = NoLog
    /\ InitService

\* content_analyzer.analyze_text(value)
AnalyzeTextValue ==
    /\ pc = "call" /\ op = "analyze_text"
    /\ result' = analyze_text_value(ollama_available, arg.data.text, arg.reply)
    /\ pc' = "done"
    /\ UNCHANGED <<ollama_available, op, arg, log, service>>

\* POST /analyze/text with {"text": value}
HandleTextValue ==
    /\ pc = "call" /\ op = "/analyze/text"
    /\ Respond(op, arg,
               text_value_handler(arg.data, arg.reply, ollama_available,
                                  analysis_cache, link_analysis_cache, hash_collides))
    /\ pc' = "done"
    /\ UNCHANGED <<ollama_available, rate_limit_cache, now, requests, hash_collides, sweep>>

NextValues == AnalyzeTextValue \/ HandleTextValue

SpecValues == InitValues /\ [][NextValues]_vars

(***************************************************************************)
(* The probe of the backend in ContentAnalyzer.__init__ and the calls of   *)
(* analyze_text that follow it.  The backend is up or down at each call,   *)
(* whatever it was when probed; a backend that is down does not answer.    *)
(***************************************************************************)
model_name == "transphobia-detector"

\* ContentAnalyzer._check_ollama, for the outcome of GET /api/tags
_check_ollama(probe) == probe.status = "200" /\ model_name \in probe.models

\* "if self.ollama_available", had it asked the backend again
Attempts_rechecked(available, up) == available /\ up

\* "if self.ollama_available": the flag set by __init__ decides, the state of
\* the backend at the call does not
Attempts(available, up) == available

Probes ==
    {[status |-> st, models |-> {}] : st \in {"raises", "500"}}
    \cup {[status |-> "200", models |-> S] : S \in SUBSET {model_name, "llama3"}}

BackendAnswers(up) == IF up THEN {Answer("2"), Answer("x")} ELSE {Unreachable}

InitProbe ==
    /\ \E probe \in Probes :
          /\ arg = [probe |-> probe]
          /\ ollama_available = _check_ollama(probe)
    /\ op = "__init__"
    /\ pc = "idle"
    /\ result = None
    /\ log = NoLog
    /\ InitService

\* one call of analyze_text, the backend being up or down
CallAnalyzeText ==
    /\ pc = "idle" /\ requests < MaxRequests
    /\ \E text \in SeqsUpTo(Tokens, MaxValueLen), up \in BOOLEAN :
          \E reply \in BackendAnswers(up) :
             /\ arg' = [text |-> text, up |-> up,
                        reply |-> IF Attempts(ollama_available, up) THEN reply ELSE NoReply]
             /\ result' = analyze_text(Attempts(ollama_available, up), text, reply)
             /\ log' = [log EXCEPT !.ollama_calls =
                                      OllamaCalls(Attempts(ollama_available, up), text)]
    /\ op' = "analyze_text"
    /\ requests' = requests + 1
    /\ UNCHANGED <<ollama_available, pc, link_analysis_cache, analysis_cache,
                   rate_limit_cache, now, hash_collides, sweep, cached_at>>

NextProbe == CallAnalyzeText

SpecProbe == InitProbe /\ [][NextProbe]_vars

(***************************************************************************)
(* Calls of analyze_single_url and analyze_links on one memo.  At every    *)
(* call the archive has an answer for every unknown domain of the call,    *)
(* also for the domains resolved before, and the answer of one call need   *)
(* not be the answer of the next.                                          *)
(***************************************************************************)
UrlUnknownUpper == <<"WWW.", "EXAMPLE.COM">>
UrlOther == <<"https://", "other.org">>

MemoUrls == {UrlUnknown, UrlUnknownUpper, UrlOther, UrlKnownPhobic}

MemoLinkLists ==
    {<<UrlUnknown>>, <<UrlUnknownUpper, UrlOther>>, <<UrlUnknown, UrlKnownPhobic>>}

InitMemo ==
    /\ ollama_available = FALSE
    /\ op = "start"
    /\ arg = None
    /\ pc = "idle"
    /\ result = None
    /\ log = NoLog
    /\ InitService

\* cc_analyzer.analyze_links(links)
ResolveLinks ==
    /\ pc = "idle" /\ requests < MaxRequests
    /\ \E links \in MemoLinkLists :
       \E world \in Worlds(UnknownDomains(links)) :
       \E order \in Orders(DomainsOf(links)) :
          Return("analyze_links",
                 [links |-> links, world |-> world, order |-> order],
                 analyze_links(links, order, link_analysis_cache, world))
    /\ requests' = requests + 1
    /\ UNCHANGED <<ollama_available, pc, now, analysis_cache,
                   rate_limit_cache, hash_collides, sweep, cached_at>>

\* cc_analyzer.analyze_single_url(url)
ResolveSingleUrl ==
    /\ pc = "idle" /\ requests < MaxRequests
    /\ \E url \in MemoUrls :
       \E world \in Worlds(UnknownDomain(url)) :
          Return("analyze_single_url", [url |-> url, world |-> world],
                 analyze_single_url(url, link_analysis_cache, world))
    /\ requests' = requests + 1
    /\ UNCHANGED <<ollama_available, pc, now, analysis_cache,
                   rate_limit_cache, hash_collides, sweep, cached_at>>

NextMemo == ResolveLinks \/ ResolveSingleUrl

SpecMemo == InitMemo /\ [][NextMemo]_vars

(***************************************************************************)
(* The cleanup thread running clear_expired_cache beside the requests to   *)
(* /analyze/profile.  A round of the thread reads the clock and collects   *)
(* expired_keys, then deletes the keys one by one, then sleeps; a request  *)
(* is served between any two of these steps.  The keys are deleted in any  *)
(* order.                                                                  *)
(***************************************************************************)
InitSweep ==
    /\ ollama_available = FALSE
    /\ op = "start"
    /\ arg = None
    /\ pc = "idle"
    /\ result = None
    /\ log = NoLog
    /\ link_analysis_cache = <<>>
    /\ analysis_cache = <<>>
    /\ rate_limit_cache = <<>>
    /\ now = Epoch
    /\ requests = 0
    /\ hash_collides = FALSE
    /\ sweep = Asleep
    /\ cached_at = <<>>

\* current_time = time.time() and the loop that fills expired_keys
SweepScan ==
    /\ sweep.pc = "sleep"
    /\ sweep' = [pc |-> "delete", current_time |-> now,
                 expired_keys |-> expired_keys(analysis_cache, now)]
    /\ UNCHANGED <<ollama_available, op, arg, pc, result, log, link_analysis_cache,
                   analysis_cache, rate_limit_cache, now, requests, hash_collides,
                   cached_at>>

\* del analysis_cache[key] for one key of expired_keys
SweepDelete ==
    /\ sweep.pc = "delete"
    /\ \E key \in sweep.expired_keys :
          /\ analysis_cache' = Without(analysis_cache, {key})
          /\ sweep' = [sweep EXCEPT !.expired_keys = @ \ {key}]
    /\ UNCHANGED <<ollama_available, op, arg, pc, result, log, link_analysis_cache,
                   rate_limit_cache, now, requests, hash_collides, cached_at>>

\* time.sleep(6 * 60 * 60) once every key is deleted
SweepSleep ==
    /\ sweep.pc = "delete" /\ sweep.expired_keys = {}
    /\ sweep' = Asleep
    /\ UNCHANGED <<ollama_available, op, arg, pc, result, log, link_analysis_cache,
                   analysis_cache, rate_limit_cache, now, requests, hash_collides,
                   cached_at>>

NextSweep ==
    \/ HandleAnalyzeProfile
    \/ SweepScan
    \/ SweepDelete
    \/ SweepSleep
    \/ Wait

SpecSweep == InitSweep /\ [][NextSweep]_vars

(***************************************************************************)
(* POST /analyze/profile for profiles of MinLongPosts - 1 to MaxLongPosts  *)
(* posts, made of two runs of equal posts, with no link, a known           *)
(* transphobic link or a link to an unknown domain.                        *)
(***************************************************************************)
LongPostLists(available) ==
    UNION {{Run(a, n1) \o Run(b, n - n1) :
               a \in PostKinds(available), b \in PostKinds(available), n1 \in 0..n} :
           n \in (MinLongPosts - 1)..MaxLongPosts}

LongFetches(available) ==
    {[kind |-> "data", posts |-> posts, links |-> links] :
        posts \in LongPostLists(available),
        links \in {<<>>, <<UrlKnownPhobic>>, <<UrlUnknown>>}}

InitLong ==
    /\ ollama_available \in BOOLEAN
    /\ op = "/analyze/profile"
    /\ \E fetch \in LongFetches(ollama_available) :
       \E world \in Worlds(UnknownDomains(fetch.links)) :
       \E order \in Orders(DomainsOf(fetch.links)) :
          arg = [data |-> [identifier |-> "alice", platform |-> "generic"],
                 fetch |-> fetch, world |-> world, order |-> order]
    /\ pc = "call"
    /\ result = None
    /\ log = NoLog
    /\ InitService

\* POST /analyze/profile for the profile fetched
HandleLongProfile ==
    /\ pc = "call" /\ op = "/analyze/profile"
    /\ Respond(op, arg,
               profile_handler(arg.data, arg.fetch, arg.order, arg.world,
                               ollama_available, analysis_cache, link_analysis_cache,
                               now))
    /\ pc' = "done"
    /\ UNCHANGED <<ollama_available, rate_limit_cache, now, requests, hash_collides,
                   sweep>>

NextLong == HandleLongProfile

SpecLong == InitLong /\ [][NextLong]_vars

(***************************************************************************)
(* Everything together: the analyzers called on their own and the service. *)
(***************************************************************************)
Init == InitText \/ InitCounts \/ InitProfile \/ InitCalls

Next == NextText \/ NextCounts \/ NextProfile \/ NextCalls

Spec == Init /\ [][Next]_vars

(***************************************************************************)
(* Claims about analyze_text and analyze_with_patterns.                    *)
(***************************************************************************)
TextDone == pc = "done" /\ op = "analyze_text"
ModelAnswered == ollama_available /\ arg.reply.status \in {"200", "200_no_response_key"}

\* C2: a text that passes the length check gets the model verdict (confidence
\* 0.8) when the model is available and its call succeeds, and otherwise
\* exactly the pattern verdict of the normalized text; the model is called at
\* most once.
C2_ModelThenPatterns ==
    (TextDone /\ ~(arg.text = <<>> \/ TextLen(Strip(arg.text)) < MinTextLen)) =>
        /\ log.ollama_calls <= 1
        /\ ModelAnswered =>
              /\ log.ollama_calls = 1
              /\ result.method = "ollama"
              /\ result.confidence = Rat(8, 10)
        /\ ~ModelAnswered =>
              result = analyze_with_patterns(preprocess_text(arg.text))

\* C2 witness: the backend is unreachable and the pattern matcher's verdict on
\* the normalized text (a phrase next to a URL, which normalization removes) is
\* returned.
C2_Witness ==
    /\ TextDone /\ ollama_available
    /\ arg.reply.status = "unreachable"
    /\ arg.text = <<"P", " ", "U", "a">>
    /\ result.method = "pattern_matching"
    /\ result.classification = 2

NoDigitAnswer ==
    /\ TextDone /\ ollama_available
    /\ ~(arg.text = <<>> \/ TextLen(Strip(arg.text)) < MinTextLen)
    /\ arg.reply.status = "200"
    /\ \A i \in 1..Len(arg.reply.response) : arg.reply.response[i] \notin {"0", "1", "2"}

RECURSIVE NonWhitespaceLen(_)
NonWhitespaceLen(text) ==
    IF text = <<>> THEN 0
    ELSE (IF Head(text) = " " THEN 0 ELSE Width(Head(text))) + NonWhitespaceLen(Tail(text))

IsInsufficient(r) ==
    /\ r.classification = 1
    /\ r.confidence = Rat(1, 10)
    /\ "error" \in DOMAIN r

\* C4 as stated: every text with fewer than 5 non-whitespace characters gets
\* gray_area with confidence 0.1.
C4_FewNonWhitespace ==
    (TextDone /\ NonWhitespaceLen(arg.text) < MinTextLen) => IsInsufficient(result)

\* C4 amended: analyze_text returns gray_area with confidence 0.1
\* (insufficient_text) exactly for the texts that are empty or shorter than 5
\* characters once leading and trailing whitespace is stripped, inner
\* whitespace counted, whether or not the model is available.
C4_ShortAfterStrip ==
    TextDone =>
        (IsInsufficient(result) <=>
            (arg.text = <<>> \/ TextLen(Strip(arg.text)) < MinTextLen))

\* C4 witness: four characters and a trailing blank are rejected although the
\* model is available and answers.
C4_Witness ==
    /\ TextDone /\ ollama_available
    /\ arg.text = <<"a", "a", "a", "a", " ">>
    /\ arg.reply.status = "200" /\ arg.reply.response = <<"2">>
    /\ IsInsufficient(result)

CountsDone == pc = "done" /\ op = "classify_counts"

\* C5: with t and f the match counts: no match gives (gray_area, 0.3); a ratio
\* t/(t+f) above 0.7 gives transphobic with min(0.95, 0.5 + 1.5*(ratio - 0.7)),
\* below 0.3 friendly with min(0.95, 0.5 + 1.5*(0.3 - ratio)), and anything
\* else, the ratios 0.7 and 0.3 included, (gray_area, 0.3).  The confidences
\* are compared after multiplication by 20*(t+f).
C5_RatioShaping ==
    CountsDone =>
        LET t == arg.transphobic_count
            f == arg.friendly_count
            n == t + f
            scaled == RMul(result.confidence, RInt(20 * n))
        IN  /\ n = 0 => result.classification = 1 /\ result.confidence = Rat(3, 10)
            /\ (n > 0 /\ 10 * t > 7 * n) =>
                  /\ result.classification = 2
                  /\ scaled = RInt(IF 30 * t - 11 * n < 19 * n THEN 30 * t - 11 * n ELSE 19 * n)
            /\ (n > 0 /\ 10 * t < 3 * n) =>
                  /\ result.classification = 0
                  /\ scaled = RInt(IF 19 * n - 30 * t < 19 * n THEN 19 * n - 30 * t ELSE 19 * n)
            /\ (n > 0 /\ 10 * t <= 7 * n /\ 10 * t >= 3 * n) =>
                  result.classification = 1 /\ result.confidence = Rat(3, 10)

\* C5 witness: 7 transphobic and 3 friendly matches, ratio exactly 0.7, land in
\* gray_area.
C5_Witness ==
    /\ CountsDone
    /\ arg.transphobic_count = 7 /\ arg.friendly_count = 3
    /\ result.classification = 1

(***************************************************************************)
(* Claims about analyze_profile.                                           *)
(***************************************************************************)
ProfileDone == pc = "done" /\ op = "analyze_profile"

\* the sum of the confidences w_i of a list of verdicts
RECURSIVE WeightSum(_)
WeightSum(rs) ==
    IF rs = <<>> THEN RInt(0) ELSE RAdd(Head(rs).confidence, WeightSum(Tail(rs)))

\* the sum of c_i * w_i of a list of verdicts
RECURSIVE ClassWeightSum(_)
ClassWeightSum(rs) ==
    IF rs = <<>> THEN RInt(0)
    ELSE RAdd(RMul(RInt(Head(rs).classification), Head(rs).confidence),
              ClassWeightSum(Tail(rs)))

C7_SinglePost ==
    (ProfileDone /\ Len(arg.posts) = 1) =>
        /\ Len(log.post_results) = 1
        /\ result.classification = log.post_results[1].classification
        /\ result.confidence = NumOf(Rat(55, 100))

\* C7 witness: the only post is one the model classifies as transphobic.
C7_Witness ==
    /\ ProfileDone /\ Len(arg.posts) = 1
    /\ arg.posts[1].reply = Answer("2")
    /\ log.post_results[1].confidence = Rat(8, 10)
    /\ result.classification = 2
    /\ result.consistency = NumOf(RInt(1))

FirstPosts(posts) == SubSeq(posts, 1, IF Len(posts) < 20 THEN Len(posts) ELSE 20)

\* C8: only the first 20 posts are passed to analyze_text, and the
\* classification and the confidence are those of the list cut to its first 20
\* posts.
C8_FirstTwentyPosts ==
    ProfileDone =>
        /\ log.analyzed = FirstPosts(arg.posts)
        /\ Len(log.post_results) = Len(FirstPosts(arg.posts))
        /\ LET cut == analyze_profile(ollama_available, FirstPosts(arg.posts))
           IN  /\ result.classification = cut.classification
               /\ result.confidence = cut.confidence

\* C8 witness: 20 friendly posts followed by 2 transphobic posts, which alone
\* would make a transphobic profile, give a friendly profile.
C8_Witness ==
    /\ ProfileDone
    /\ Len(arg.posts) = 22
    /\ arg.posts[20].text = <<"F">> /\ arg.posts[21].text = <<"P">>
    /\ Len(log.analyzed) = 20
    /\ result.classification = 0
    /\ analyze_profile(ollama_available, SubSeq(arg.posts, 21, 22)).classification = 2

(***************************************************************************)
(* Claims about the verdicts of the analyzers and of the service.          *)
(***************************************************************************)
Handlers == {"/analyze/profile", "/analyze/url"}
Answered == op \in Handlers /\ result.status # 400
Reconciled == op \in Handlers /\ log.path = "analyzed"
Tagged == "classification_adjusted_by" \in DOMAIN result.body

\* a verdict whose confidence is a rational, and one whose confidence is a
\* number with a square root
InRange(v) ==
    /\ v.classification \in {0, 1, 2}
    /\ RLe(RInt(0), v.confidence) /\ RLe(v.confidence, RInt(1))
InRangeNum(v) ==
    /\ v.classification \in {0, 1, 2}
    /\ NGe(v.confidence, RInt(0)) /\ NLe(v.confidence, RInt(1))

\* C1: every verdict returned by analyze_text, analyze_with_patterns,
\* analyze_profile, analyze_single_url and analyze_links, and every verdict
\* the handlers of /analyze/profile and /analyze/url answer with (fresh,
\* adjusted, cached or the error body), has its classification in {0, 1, 2}
\* and its confidence in [0, 1]; so have the primary and secondary verdicts
\* the handlers reconcile.
C1_VerdictsInRange ==
    /\ (pc = "done" /\ op \in {"analyze_text", "classify_counts"}) => InRange(result)
    /\ (pc = "done" /\ op = "analyze_profile") =>
           /\ InRangeNum(result)
           /\ \A i \in 1..Len(log.post_results) : InRange(log.post_results[i])
    /\ op \in {"analyze_links", "analyze_single_url"} => InRange(result)
    /\ Answered => InRangeNum(result.body)
    /\ Reconciled =>
           /\ InRangeNum(log.primary)
           /\ log.secondary.called => InRange(log.secondary.result)

\* a response of /analyze/url whose verdict was adjusted by the archive's
C1_Witness ==
    /\ op = "/analyze/url" /\ result.status = 200
    /\ log.path = "analyzed"
    /\ Tagged
    /\ result.body.classification # log.primary.classification

NoDataTags == {"no_posts", "no_cc_data", "no_content_extracted", "no_valid_domains"}

\* the tag of a verdict: its error, its source or its method; the aggregate
\* of analyze_links has none of them
Tag(v) ==
    IF "error" \in DOMAIN v THEN v.error
    ELSE IF "source" \in DOMAIN v THEN v.source
    ELSE IF "method" \in DOMAIN v THEN v.method
    ELSE "link_aggregate"

GrayAtMost(v, q) == v.classification = 1 /\ RLe(v.confidence, q)
GrayAtMostNum(v, q) == v.classification = 1 /\ NLe(v.confidence, q)

\* the archive was asked about the URL's domain and answered with these records
Asked(records) ==
    /\ op = "analyze_single_url"
    /\ log.queried # <<>>
    /\ AnswerFor(arg.world, log.queried[1]) = records

\* the outcomes of C9 other than that of a too short text
NoDataOutcomes ==
    /\ (pc = "done" /\ op = "analyze_profile" /\ arg.posts = <<>>) =>
           GrayAtMostNum(result, Rat(1, 10)) /\ Tag(result) = "no_posts"
    /\ (op = "analyze_links" /\ arg.links = <<>>) => GrayAtMost(result, Rat(3, 10))
    /\ (op = "analyze_links" /\ arg.links # <<>> /\ DomainsOf(arg.links) = {}) =>
           GrayAtMost(result, Rat(1, 10)) /\ Tag(result) = "no_valid_domains"
    /\ Asked(<<>>) =>
           GrayAtMost(result, Rat(1, 10)) /\ Tag(result) = "no_cc_data"
    /\ (Asked(<<None>>) \/ Asked(<<[text |-> <<>>]>>)) =>
           GrayAtMost(result, Rat(1, 10)) /\ Tag(result) = "no_content_extracted"
    /\ (op \in {"analyze_links", "analyze_single_url"} /\ Tag(result) \in NoDataTags) =>
           GrayAtMost(result, Rat(1, 10))

\* C9 as stated, a text being too short when it has fewer than 5
\* non-whitespace characters: every insufficient-input or no-data outcome is
\* a gray_area verdict with confidence at most 0.3, at most 0.1 for no_posts,
\* no_cc_data, no_content_extracted and no_valid_domains.
C9_ShortByNonWhitespace ==
    /\ (TextDone /\ NonWhitespaceLen(arg.text) < MinTextLen) =>
           GrayAtMost(result, Rat(3, 10))
    /\ NoDataOutcomes

\* C9, a text being too short when it is empty or has fewer than 5
\* characters once leading and trailing whitespace is stripped: an empty or
\* too short text, an empty post list, an empty link list or one without a
\* valid domain, a domain without archive records and a domain without
\* extractable content each yield a gray_area verdict with confidence at most
\* 0.3, and at most 0.1 for no_posts, no_cc_data, no_content_extracted and
\* no_valid_domains.
C9_NoDataIsGrayArea ==
    /\ (TextDone /\ (arg.text = <<>> \/ TextLen(Strip(arg.text)) < MinTextLen)) =>
           GrayAtMost(result, Rat(3, 10))
    /\ NoDataOutcomes

\* the archive has records of a domain, none of which can be fetched
C9_Witness ==
    /\ Asked(<<None>>)
    /\ result.classification = 1
    /\ result.confidence = Rat(1, 10)
    /\ result.source = "no_content_extracted"

\* the condition under which a handler adjusts the primary verdict
AdjustCondition ==
    /\ log.secondary.called
    /\ NLt(log.primary.confidence, Rat(6, 10))
    /\ RLt(Rat(7, 10), log.secondary.result.confidence)

Changed ==
    \/ result.body.classification # log.primary.classification
    \/ result.body.confidence # log.primary.confidence

\* C10: when /analyze/profile or /analyze/url has analyzed, the verdict it
\* answers with differs from the primary verdict in classification or
\* confidence exactly when a secondary verdict is present, the primary
\* confidence is below 0.6 and the secondary confidence above 0.7; then it
\* takes the secondary classification, the mean of the two confidences and the
\* tag classification_adjusted_by; otherwise classification and confidence
\* are the primary's and there is no tag.
C10_AdjustIff ==
    Reconciled =>
        /\ Changed <=> AdjustCondition
        /\ Tagged <=> AdjustCondition
        /\ AdjustCondition =>
               /\ result.body.classification = log.secondary.result.classification
               /\ result.body.confidence =
                      NHalf(NAddR(log.primary.confidence,
                                  log.secondary.result.confidence))

\* a profile whose posts give (friendly, below 0.6) and whose link gives
\* (transphobic, 0.85): the answer is adjusted
C10_Witness ==
    /\ op = "/analyze/profile" /\ log.path = "analyzed"
    /\ AdjustCondition
    /\ log.primary.classification = 0
    /\ result.body.classification = 2
    /\ result.body.classification_adjusted_by = "linked_sites"

(***************************************************************************)
(* Claims about the adjustment.                                            *)
(***************************************************************************)
ReconcileDone == pc = "done" /\ op = "reconcile"
Overridden == ReconcileDone /\ "classification_adjusted_by" \in DOMAIN result

\* C11: when the adjustment overrides, the result has the secondary's
\* classification, the mean of the two confidences as confidence, which lies
\* strictly between the primary's and the secondary's, and the tag
\* classification_adjusted_by; the secondary verdict is stored as it was.
C11_OverrideValues ==
    Overridden =>
        /\ result.classification = arg.secondary.classification
        /\ result.confidence =
               NumOf(RDiv(RAdd(arg.primary.confidence.a, arg.secondary.confidence),
                          RInt(2)))
        /\ RLt(arg.primary.confidence.a, result.confidence.a)
        /\ RLt(result.confidence.a, arg.secondary.confidence)
        /\ result.classification_adjusted_by = arg.how.tag
        /\ result[arg.how.field] = arg.secondary

\* primary confidence 0.5 and secondary confidence 0.75 give 0.625
C11_Witness ==
    /\ Overridden
    /\ arg.primary.confidence = NumOf(Rat(1, 2))
    /\ arg.secondary.confidence = Rat(3, 4)
    /\ arg.primary.classification # arg.secondary.classification
    /\ result.confidence = NumOf(Rat(5, 8))

(***************************************************************************)
(* Claims about the known lists.                                           *)
(***************************************************************************)
KnownPhobicVerdict ==
    [classification |-> 2, confidence |-> Rat(85, 100),
     source |-> "known_transphobic_domain"]
KnownFriendlyVerdict ==
    [classification |-> 0, confidence |-> Rat(85, 100),
     source |-> "known_transfriendly_domain"]

\* the entry of domain d in the domain_results of analyze_links has
\* classification c and confidence 0.85
Listed(d, c) ==
    \E i \in 1..Len(result.domain_results) :
        result.domain_results[i] =
            [domain |-> d, classification |-> c, confidence |-> Rat(85, 100)]

NotQueried(d) == \A i \in 1..Len(log.queried) : log.queried[i] # d

\* C12: analyze_single_url returns (transphobic, 0.85,
\* known_transphobic_domain) for a domain of the transphobic list and
\* (friendly, 0.85, known_transfriendly_domain) for one of the friendly list;
\* analyze_links lists such a domain with that classification and confidence;
\* neither asks the archive about it; the two lists are disjoint.
C12_KnownDomains ==
    /\ known_transphobic_domains \cap known_transfriendly_domains = {}
    /\ op = "analyze_single_url" =>
           LET d == _get_domain_from_url(arg.url) IN
           /\ d \in known_transphobic_domains =>
                  result = KnownPhobicVerdict /\ NotQueried(d)
           /\ d \in known_transfriendly_domains =>
                  result = KnownFriendlyVerdict /\ NotQueried(d)
    /\ op = "analyze_links" =>
           \A d \in DomainsOf(arg.links) :
               /\ d \in known_transphobic_domains => Listed(d, 2) /\ NotQueried(d)
               /\ d \in known_transfriendly_domains => Listed(d, 0) /\ NotQueried(d)

\* a link to a friendly known domain next to a link to an unknown domain: the
\* archive is asked about the unknown domain only
C12_Witness ==
    /\ op = "analyze_links"
    /\ <<arg.host>> \in known_transfriendly_domains
    /\ Listed(<<arg.host>>, 0)
    /\ log.queried = <<<<"example.com">>>>

(***************************************************************************)
(* Claims about analyze_links.                                             *)
(***************************************************************************)
LinksDone == pc = "done" /\ op = "analyze_links" /\ DomainsOf(arg.links) # {}
ListedDomains == {result.domain_results[i].domain : i \in 1..Len(result.domain_results)}
KnownOf(links) == DomainsOf(links) \ UnknownDomains(links)
Least(a, b) == IF a < b THEN a ELSE b

\* C13 as stated: every known-list domain of the link set is in the results,
\* and of the unknown domains as many are in the results as there are, up to
\* 5, however many known-list domains there are.
C13_KnownHitsOutsideCap ==
    LinksDone =>
        /\ KnownOf(arg.links) \subseteq ListedDomains
        /\ Cardinality(ListedDomains \cap UnknownDomains(arg.links))
               = Least(LinkCap, Cardinality(UnknownDomains(arg.links)))

SiteDone == pc = "done" /\ op = "site_counts"
Total == arg.transphobic_count + arg.friendly_count
TextVerdict == ClassifyCounts(arg.transphobic_count, arg.friendly_count)
\* 10 * (ratio - 0.7) and 10 * (0.3 - ratio), as fractions of Total
AboveHigh == 10 * arg.transphobic_count - 7 * Total
BelowLow == 3 * Total - 10 * arg.transphobic_count

\* C15: for counts (t, f) with t + f > 0 the site resolver classifies as the
\* text matcher does (ratio > 0.7 transphobic, < 0.3 friendly, else gray_area
\* with 0.3); a decisive verdict has confidence 0.5 + min(0.4, ratio - 0.7)
\* resp. 0.5 + min(0.4, 0.3 - ratio), which is not the text matcher's
\* confidence for the same counts and is at most 0.8.
C15_SiteConfidence ==
    (SiteDone /\ Total > 0) =>
        /\ result.classification = TextVerdict.classification
        /\ result.classification = 2 <=> AboveHigh > 0
        /\ result.classification = 0 <=> BelowLow > 0
        /\ result.classification = 1 <=> (AboveHigh <= 0 /\ BelowLow <= 0)
        /\ result.classification = 1 =>
               result.confidence = Rat(3, 10) /\ TextVerdict.confidence = Rat(3, 10)
        /\ result.classification = 2 =>
               result.confidence
                   = RAdd(Rat(1, 2), RMin(Rat(4, 10), Rat(AboveHigh, 10 * Total)))
        /\ result.classification = 0 =>
               result.confidence
                   = RAdd(Rat(1, 2), RMin(Rat(4, 10), Rat(BelowLow, 10 * Total)))
        /\ result.classification # 1 => result.confidence # TextVerdict.confidence
        /\ RLe(result.confidence, Rat(8, 10))

\* C15 witness: 10 transphobic matches and none friendly give the site
\* verdict (transphobic, 0.8) where the text matcher gives 0.95.
C15_Witness ==
    /\ SiteDone
    /\ arg.transphobic_count = 10 /\ arg.friendly_count = 0
    /\ result.classification = 2
    /\ result.confidence = Rat(8, 10)
    /\ TextVerdict.confidence = Rat(95, 100)

(***************************************************************************)
(* Claims about /verify/submission.                                        *)
(***************************************************************************)
Submitted == op = "/verify/submission" /\ arg.data # None
WithPosts == Submitted /\ log.path = "verified"
ProfileVerdictOf(fetch) == analyze_profile(ollama_available, fetch.posts)
Contradicted == ~result.body.verified

\* C16: for a profile with posts, verified holds exactly when the label of
\* the profile verdict's classification is the proposed label; the
\* recommendation is reject exactly when not verified and confidence > 0.8,
\* gray_area exactly when not verified and 0.5 < confidence <= 0.8, accept
\* otherwise; a bad identifier is rejected and no profile is fetched.
C16_Verification ==
    /\ WithPosts <=>
           /\ Submitted /\ ~is_bad_identifier(arg.data.identifier)
           /\ arg.fetch.kind = "data" /\ arg.fetch.posts # <<>>
    /\ WithPosts =>
           /\ result.body.confidence = ProfileVerdictOf(arg.fetch).confidence
           /\ result.body.verified
                  <=> labels(ProfileVerdictOf(arg.fetch).classification)
                          = arg.data.proposed_label
           /\ result.body.recommendation = "reject"
                  <=> Contradicted /\ NGt(result.body.confidence, Rat(8, 10))
           /\ result.body.recommendation = "gray_area"
                  <=> /\ Contradicted
                      /\ NGt(result.body.confidence, Rat(5, 10))
                      /\ NLe(result.body.confidence, Rat(8, 10))
           /\ result.body.recommendation = "accept"
                  <=> Contradicted => NLe(result.body.confidence, Rat(5, 10))
    /\ (Submitted /\ is_bad_identifier(arg.data.identifier)) =>
           /\ ~log.fetched
           /\ ~result.body.verified
           /\ result.body.recommendation = "reject"

\* C16 witness: six friendly posts give confidence exactly 0.8; proposed as
\* transphobic the submission is not verified and the recommendation is
\* gray_area, not reject.
C16_Witness ==
    /\ WithPosts
    /\ arg.data.proposed_label = "transphobic"
    /\ result.body.ml_recommended_label = "t-friendly"
    /\ result.body.confidence = NumOf(Rat(8, 10))
    /\ Contradicted
    /\ result.body.recommendation = "gray_area"

(***************************************************************************)
(* Claims about _get_domain_from_url.                                      *)
(***************************************************************************)
DomainDone == pc = "done" /\ op = "_get_domain_from_url"
\* the URL with "www." put before its host
WithWww(url) ==
    IF url # <<>> /\ Head(url) = "https://"
    THEN <<"https://", "www.">> \o Tail(url)
    ELSE <<"www.">> \o url

\* C17 as stated: normalizing the output of _get_domain_from_url again
\* returns the same output, and a URL, the URL in lower case and the URL
\* with a leading "www." normalize to the same domain.
C17_NormalizationIdempotent ==
    DomainDone =>
        /\ _get_domain_from_url(result) = result
        /\ _get_domain_from_url(LowerAll(arg.url)) = result
        /\ _get_domain_from_url(WithWww(arg.url)) = result

(***************************************************************************)
(* Claims about the rate limiter.                                          *)
(***************************************************************************)
Requested == op = "before_request"
SeenInWindow == log[ClientKey(arg)].n
Rejected == Requested /\ result # None
\* a rejection has status 429 and a retry_after between 0 and the window
\* length
RejectionShape ==
    Rejected =>
        /\ result.status = 429
        /\ result.body.retry_after \in 0..RATE_LIMIT_WINDOW

\* C18 as stated: a client's first 60 requests inside a window are
\* admitted, the 61st is rejected, a rejection has status 429 and a
\* retry_after between 0 and the window length.
C18_AdmitsUpToMax ==
    Requested =>
        /\ SeenInWindow <= RATE_LIMIT_MAX => result = None
        /\ SeenInWindow = RATE_LIMIT_MAX + 1 => result # None
        /\ RejectionShape

(***************************************************************************)
(* Claims about the sweep of analysis_cache.                               *)
(***************************************************************************)
Swept == op = "clear_expired_cache"
Age(key) == now - cached_at[key]

\* C19 as stated: a round of the sweep removes an entry only if the entry
\* was cached more than CACHE_EXPIRY before; text, url and profile entries
\* cached less than 24 hours before are still in analysis_cache after it.
C19_SweepRemovesOnlyExpired ==
    Swept =>
        /\ \A key \in result.removed : Age(key) > CACHE_EXPIRY
        /\ \A key \in arg.before :
               Age(key) < CACHE_EXPIRY => key \in DOMAIN analysis_cache

(***************************************************************************)
(* Claims about requests whose collaborators fail.                         *)
(***************************************************************************)
\* the step is a request to /analyze/profile that finds no fresh entry and
\* whose profile fetch raises or returns no posts
ProfileFailed ==
    /\ op' = "/analyze/profile" /\ requests' = requests + 1
    /\ arg'.data # None
    /\ ~(/\ ProfileKey(arg'.data) \in DOMAIN analysis_cache
         /\ analysis_cache[ProfileKey(arg'.data)].timestamp > now - CACHE_EXPIRY)
    /\ (arg'.fetch.kind \in {"raises", "none"} \/ arg'.fetch.posts = <<>>)

\* the step is a request to /analyze/url that finds no entry and whose page
\* fetch returns nothing or in which a call raises
UrlFailed ==
    /\ op' = "/analyze/url" /\ requests' = requests + 1
    /\ arg'.data # None
    /\ UrlKey(arg'.data) \notin DOMAIN analysis_cache
    /\ (arg'.page.content \in {None, Raised} \/ arg'.page.content.text = <<>>)

GrayLowBody(body) ==
    body.classification = 1 /\ body.confidence = NumOf(Rat(1, 10))

\* C20: a request to /analyze/profile or /analyze/url whose fetch returns
\* nothing or in which a step raises is answered (gray_area, 0.1) and
\* leaves analysis_cache exactly as it was before the request.
C20_FailureKeepsCache ==
    [][(ProfileFailed \/ UrlFailed) =>
          /\ analysis_cache' = analysis_cache
          /\ GrayLowBody(result'.body)
          /\ result'.status \in {200, 500}]_vars

\* C20 witness: a request has raised and been answered 500 with
\* (gray_area, 0.1) while analysis_cache holds the entry of an earlier
\* request.
C20_Witness ==
    /\ op \in Handlers
    /\ log.path = "exception"
    /\ result.status = 500
    /\ GrayLowBody(result.body)
    /\ analysis_cache # <<>>

(***************************************************************************)
(* C21: text classification never raises.  For every value passed as text  *)
(* to analyze_text and to the /analyze/text handler, a value that is not a *)
(* string included, the call returns a verdict, and a value that is not a  *)
(* string yields gray_area with confidence 0.1.                            *)
(***************************************************************************)
ValueDone == pc = "done" /\ op \in {"analyze_text", "/analyze/text"}
Malformed == arg.data.text.type # "str"
Returned == IF op = "analyze_text" THEN result ELSE result.body

C21_NeverRaises ==
    ValueDone =>
        /\ Returned # Raised
        /\ Malformed => /\ Returned.classification = 1
                        /\ Returned.confidence \in {ConfInsufficient, NumOf(ConfInsufficient)}
        /\ op = "/analyze/text" => result.status = 200

(***************************************************************************)
(* C22: the consistency of analyze_profile, 1 - stddev(c_i)/2 over the     *)
(* classifications c_i in {0, 1, 2} of the analyzed posts.                 *)
(***************************************************************************)
Classified == ProfileDone /\ arg.posts # <<>>
PostClasses == Classifications(log.post_results)
EvenlySplit == Share(PostClasses, 0) = Rat(1, 2) /\ Share(PostClasses, 2) = Rat(1, 2)
Unanimous == \E c \in 0..2 : Share(PostClasses, c) = RInt(1)

\* C22, as stated: the consistency is negative for some sequence of
\* classifications.  The standard deviation is largest when half of the
\* posts are classified 0 and half 2, so if any sequence gives a negative
\* consistency, these do.
C22_NegativeAtWidestSpread ==
    (Classified /\ EvenlySplit) => NLt(result.consistency, RInt(0))

\* C22, amended: the consistency is the unclamped 1 - stddev/2 and lies
\* between 0.5 and 1 for every sequence of classifications: 0.5 exactly when
\* half of the posts are classified 0 and half 2, 1 exactly when all posts
\* are classified alike.
C22_ConsistencyAtLeastHalf ==
    Classified =>
        /\ result.consistency = Num(RInt(1), RDiv(Variance(PostClasses), RInt(4)))
        /\ NGe(result.consistency, Rat(1, 2))
        /\ NLe(result.consistency, RInt(1))
        /\ (result.consistency = NumOf(Rat(1, 2))) <=> EvenlySplit
        /\ (result.consistency = NumOf(RInt(1))) <=> Unanimous

\* C22 witness: ten posts the model classifies as transphobic and ten it
\* classifies as friendly have consistency exactly 0.5.
C22_Witness ==
    /\ Classified
    /\ Len(arg.posts) = 20
    /\ EvenlySplit
    /\ result.consistency = NumOf(Rat(1, 2))

(***************************************************************************)
(* C23: the backend is probed once, in the constructor, and the flag is    *)
(* not checked again.                                                      *)
(***************************************************************************)
Constructed == op = "__init__"
Called == op = "analyze_text" /\ requests > 0
ModelAttempted == log.ollama_calls = 1

\* C23, as stated: in every call of analyze_text the model is attempted if
\* and only if the probe of the constructor succeeded.
C23_AttemptedIffProbed ==
    Called => (ModelAttempted <=> ollama_available)

\* C23, amended: the flag is the outcome of the constructor's probe and no
\* call changes it; in every call whose text passes the length check the
\* model is attempted if and only if the flag is set, whether the backend
\* is up or down at the call, and then exactly once; for a text that fails
\* the length check the model is not attempted.
C23_ProbedOnce ==
    /\ Constructed => (ollama_available = _check_ollama(arg.probe))
    /\ [][/\ ollama_available' = ollama_available
          /\ log'.ollama_calls \in {0, 1}
          /\ ModelAttempted' <=> (ollama_available /\ ~TooShort(arg'.text))]_vars

\* C23 witness: the probe succeeded, the backend is down at the second call,
\* and the model is attempted all the same; the call falls back on the
\* patterns.
C23_Witness ==
    /\ Called /\ requests = 2
    /\ ollama_available /\ ~arg.up
    /\ ModelAttempted
    /\ arg.reply = Unreachable
    /\ result.method = "pattern_matching"

(***************************************************************************)
(* C24: per-domain results are memoized.                                   *)
(***************************************************************************)
MemoOps == {"analyze_links", "analyze_single_url"}

\* the verdict with which the call that has returned resolved domain d, as a
\* set: empty when the call did not resolve d
ResolvedAs(d) ==
    IF op = "analyze_single_url" THEN
        {[classification |-> result.classification, confidence |-> result.confidence] :
            x \in {d} \cap {_get_domain_from_url(arg.url)}}
    ELSE IF op = "analyze_links" /\ "domain_results" \in DOMAIN result THEN
        {[classification |-> r.classification, confidence |-> r.confidence] :
            r \in {x \in Range(result.domain_results) : x.domain = d}}
    ELSE {}

Stored(memo, d) ==
    [classification |-> memo[d].classification, confidence |-> memo[d].confidence]

\* C24: in every call, a domain that is in the memo keeps its memo entry, is
\* not asked of the archive, and if the call resolves it, it is resolved
\* with the verdict of the memo; a domain that analyze_single_url or the
\* unknown-domain path of analyze_links resolves for the first time is put
\* into the memo with the verdict returned, no_cc_data and
\* no_content_extracted included.
C24_Memoized ==
    [][op' \in MemoOps =>
          /\ \A d \in DOMAIN link_analysis_cache :
                /\ d \in DOMAIN link_analysis_cache'
                /\ link_analysis_cache'[d] = link_analysis_cache[d]
                /\ d \notin Range(log'.queried)
                /\ \A v \in ResolvedAs(d)' : v = Stored(link_analysis_cache, d)
          /\ \A d \in Range(log'.queried) :
                /\ d \in DOMAIN link_analysis_cache'
                /\ ResolvedAs(d)' = {Stored(link_analysis_cache', d)}
          /\ op' = "analyze_single_url" =>
                /\ _get_domain_from_url(arg'.url) \in DOMAIN link_analysis_cache'
                /\ result' = link_analysis_cache'[_get_domain_from_url(arg'.url)]]_vars

\* C24 witness: example.com was resolved as no_cc_data; at the second call
\* the archive holds a transphobic page for it, and analyze_links resolves
\* it as before without asking the archive.
C24_Witness ==
    /\ requests = 2 /\ op = "analyze_links"
    /\ arg.world[<<"example.com">>] = <<[text |-> <<"P">>]>>
    /\ link_analysis_cache[<<"example.com">>].source = "no_cc_data"
    /\ log.queried = <<>>
    /\ ResolvedAs(<<"example.com">>) = {[classification |-> 1, confidence |-> ConfNoData]}

(***************************************************************************)
(* C25: the sweep beside a request that writes the same key.               *)
(***************************************************************************)
Fresh(key) == now - cached_at[key] < CACHE_EXPIRY

\* C25: an entry that a request to /analyze/profile wrote less than
\* CACHE_EXPIRY ago, before or during a round of the sweep, is in
\* analysis_cache, whatever the sweep has done since.
C25_RefreshedEntrySurvives ==
    \A key \in DOMAIN cached_at : Fresh(key) => key \in DOMAIN analysis_cache

(***************************************************************************)
(* C26: the label of a verdict returned by /analyze/profile and            *)
(* /analyze/url.                                                           *)
(***************************************************************************)
Labelled == Answered /\ "label" \in DOMAIN result.body

\* C26: a returned verdict that carries a label carries the label of its
\* classification, also when the classification was replaced by that of the
\* linked sites or of the archive.
C26_LabelOfClassification ==
    Labelled => result.body.label = labels(result.body.classification)

(***************************************************************************)
(* C27: analyze_links and the order in which the set of domains is         *)
(* iterated.  The call of the state was made on an empty memo.             *)
(***************************************************************************)
InOrder(order) == analyze_links(arg.links, order, <<>>, arg.world).result

SameVerdict(v, w) ==
    /\ v.classification = w.classification
    /\ v.confidence = w.confidence
    /\ v.domains_analyzed = w.domains_analyzed

\* C27: the classification, the confidence and domains_analyzed that
\* analyze_links returned are those it returns for every other order of
\* iteration over the same domains, with the same memo and the same answers
\* of the archive.
C27_OrderIndependent ==
    LinksDone =>
        \A order \in Orders(DomainsOf(arg.links)) : SameVerdict(InOrder(order), result)

(***************************************************************************)
(* C28: a client that was rejected and the first request it makes more     *)
(* than RATE_LIMIT_WINDOW after its window began.                          *)
(***************************************************************************)
\* the step is a request of a client of whose window, begun more than
\* RATE_LIMIT_WINDOW ago, a request was rejected
AfterLimitedWindow ==
    /\ op' = "before_request" /\ requests' = requests + 1
    /\ ClientKey(arg') \in DOMAIN log
    /\ log[ClientKey(arg')].limited
    /\ now - log[ClientKey(arg')].first > RATE_LIMIT_WINDOW

\* C28: such a request is admitted and leaves the client with a new window
\* that begins now and has count 1, whether or not the sweep has removed the
\* client's counter.
C28_NotLockedOut ==
    [][AfterLimitedWindow =>
          /\ result' = None
          /\ rate_limit_cache'[ClientKey(arg')] = [timestamp |-> now, count |-> 1]]_vars

(***************************************************************************)
(* C29: /analyze/profile and a cached verdict older than CACHE_EXPIRY.     *)
(***************************************************************************)
ProfileRequest ==
    op' = "/analyze/profile" /\ requests' = requests + 1 /\ arg'.data # None

\* the entry of the request's key is in the cache and more than
\* CACHE_EXPIRY old when the request arrives
StaleEntry ==
    /\ ProfileKey(arg'.data) \in DOMAIN analysis_cache
    /\ now - analysis_cache[ProfileKey(arg'.data)].timestamp > CACHE_EXPIRY

\* C29: no answer of /analyze/profile carries a timestamp more than
\* CACHE_EXPIRY old.  A request that meets a stale entry is not answered
\* from the cache: the profile is fetched again, and if the analysis
\* succeeds the entry is overwritten with the verdict returned, whose
\* timestamp is the time of the request.  This holds between any two steps
\* of the sweep, before it has run, while it runs and after.
C29_NoStaleVerdict ==
    [][ProfileRequest =>
          /\ "timestamp" \in DOMAIN result'.body
                => now - result'.body.timestamp <= CACHE_EXPIRY
          /\ StaleEntry =>
                /\ log'.path \in {"exception", "no_data", "analyzed"}
                /\ arg'.fetch \in ProfileFetches(ollama_available)
                /\ log'.path = "analyzed" =>
                      /\ result'.body.timestamp = now
                      /\ analysis_cache'[ProfileKey(arg'.data)] = result'.body]_vars

\* C29 witness: the sweep has found the entry expired and has not deleted
\* it yet; the request that comes now analyzes the profile again and
\* caches a verdict with the timestamp of the request.
C29_Witness ==
    /\ op = "/analyze/profile" /\ requests = 2 /\ log.path = "analyzed"
    /\ now - Epoch > CACHE_EXPIRY
    /\ sweep.pc = "delete" /\ ProfileKey(arg.data) \in sweep.expired_keys
    /\ result.body.timestamp = now
    /\ analysis_cache[ProfileKey(arg.data)].timestamp = now

(***************************************************************************)
(* C30: profiles of 10 posts or more and the linked-sites override.        *)
(***************************************************************************)
LongDone == pc = "done" /\ op = "/analyze/profile"
ManyPosts == Len(arg.fetch.posts) >= MinLongPosts

\* C30: for a profile of 10 posts or more the confidence of the profile
\* verdict is at least 0.75, and the answer of /analyze/profile has the
\* classification and the confidence of the profile verdict and no
\* classification_adjusted_by, whatever analyze_links returned.
C30_ManyPostsNoOverride ==
    (LongDone /\ ManyPosts) =>
        /\ log.path = "analyzed"
        /\ NGe(log.primary.confidence, Rat(3, 4))
        /\ result.body.classification = log.primary.classification
        /\ result.body.confidence = log.primary.confidence
        /\ ~Tagged

\* C30 witness: ten posts, five the model calls transphobic and five it
\* calls friendly, have confidence exactly 0.75; the link is known
\* transphobic with confidence 0.85, and the answer stays gray_area.
C30_Witness ==
    /\ LongDone /\ Len(arg.fetch.posts) = MinLongPosts
    /\ log.primary.confidence = NumOf(Rat(3, 4))
    /\ log.secondary.called
    /\ log.secondary.result.classification = 2
    /\ RLt(AdjustAbove, log.secondary.result.confidence)
    /\ result.body.classification = 1
    /\ result.body.confidence = NumOf(Rat(3, 4))

====
